---- MODULE Spec2Model ----
(***************************************************************************)
(* cc-backend: job lifecycle (start / stop / archive), the archiving       *)
(* pipeline with its wait primitive, and the cached metric read path.      *)
(*                                                                         *)
(* The job table and its statements are modelled from repository/job.go,   *)
(* the read path from internal/metricdata/metricdata.go.  The REST          *)
(* handlers, the archiving goroutine, the archive store and the LRU cache  *)
(* are not part of the sources at hand; they are modelled from the         *)
(* specification text and from the integration test that drives them.      *)
(***************************************************************************)
EXTENDS Integers, Sequences, FiniteSets, TLC

\* ------------------------------------------------------------------ bounds
MaxJobs == 2
NumStopReqs == 2
MaxStartTime == 2
NumReaders == 2
MaxNow == 302
MaxDirs == 2
NumTagCallers == 2
NumUiCallers == 2
NumUpdaters == 1

\* ------------------------------------------------------- program constants
MonitoringStatusDisabled == 0
MonitoringStatusRunningOrArchiving == 1
MonitoringStatusArchivingFailed == 2
MonitoringStatusArchivingSuccessful == 3

StatusOK == 200
StatusCreated == 201
StatusNotFound == 404
StatusUnprocessableEntity == 422

\* Two start times closer than this are "implausibly close".
GuardWindow == 2

JobStateRunning == "running"
TerminalStates == {"completed", "failed"}

JobIds == {123}
Clusters == {"testcluster"}
StartTimes == 0..MaxStartTime
StopTimes == {MaxStartTime + 1}
NoTime == 0 - 1

StopReqs == 1..NumStopReqs
Readers == 1..NumReaders
TagCallers == 1..NumTagCallers
UiCallers == 1..NumUiCallers
Updaters == 1..NumUpdaters

VARIABLES
    job,        \* the job table: a sequence of rows, row i has id i
    startResp,  \* the response of the last start request
    stopReq,    \* per stop request: its inputs, position and response
    arch,       \* per stop request: the archiving task it triggered
    wg,         \* OngoingArchivings: the wait group's counter
    waiter,     \* a caller of OngoingArchivings.Wait()
    archive,    \* the archive store: per job id, the archived JobData
    reader,     \* per caller of LoadData: its arguments, position and result
    cache,      \* the LRU cache: the entries present, by key
    now,        \* the clock the cache reads, in minutes
    probe,      \* the last direct call of a repository or read-path function
    tag,        \* the tag table: a sequence of rows, row i has id i
    jobtag,     \* the jobtag table: a set of (job id, tag id) pairs
    tagCall,    \* per caller of AddTagOrCreate: its arguments and position
    uiDefaults,     \* config: the default UI configuration
    configuration,  \* config: the configuration table, per user and key
    uiCache,        \* config: the cache of per-user configurations
    uiCall,         \* per caller of GetUIConfig: its user, position and result
    lock,           \* config: the RWMutex, who holds it for reading and writing
    updCall         \* per caller of UpdateConfig: its arguments and position

cfgVars == <<uiDefaults, configuration, uiCache, uiCall, lock, updCall>>

\* The variables the job lifecycle and the cached read path leave alone.
rest == <<now, probe, tag, jobtag, tagCall, cfgVars>>

vars == <<job, startResp, stopReq, arch, wg, waiter, archive, reader, cache,
          now, probe, tag, jobtag, tagCall, cfgVars>>

\* ------------------------------------------------------------ job table
NoJob ==
    [id |-> 0, job_id |-> 0, user |-> "", cluster |-> "", start_time |-> 0,
     duration |-> 0, job_state |-> "", monitoring_status |-> 0,
     mem_used_max |-> 0, flops_any_avg |-> 0, mem_bw_avg |-> 0,
     load_avg |-> 0, net_bw_avg |-> 0, file_bw_avg |-> 0]

\* Faulty variants of FindRows: one that compares the start time even when
\* none is given, one that matches running jobs only.
FindRows_OnlyRunning(tbl, jobId, cluster, startTime) ==
    {i \in DOMAIN tbl :
        /\ tbl[i].job_id = jobId
        /\ (cluster # "" => tbl[i].cluster = cluster)
        /\ (startTime # NoTime => tbl[i].start_time = startTime)
        /\ tbl[i].job_state = JobStateRunning}

FindRows_AlwaysFiltersStartTime(tbl, jobId, cluster, startTime) ==
    {i \in DOMAIN tbl :
        /\ tbl[i].job_id = jobId
        /\ (cluster # "" => tbl[i].cluster = cluster)
        /\ tbl[i].start_time = startTime}

\* The rows matching Find's WHERE clause; the optional filters are NoTime /
\* "" when absent.
FindRows(tbl, jobId, cluster, startTime) ==
    {i \in DOMAIN tbl :
        /\ tbl[i].job_id = jobId
        /\ (cluster # "" => tbl[i].cluster = cluster)
        /\ (startTime # NoTime => tbl[i].start_time = startTime)}

\* Find: QueryRowx without ORDER BY yields one of the matching rows, or
\* sql.ErrNoRows (the empty set here).
Find(tbl, jobId, cluster, startTime) ==
    {tbl[i] : i \in FindRows(tbl, jobId, cluster, startTime)}

FindById(tbl, dbId) ==
    {tbl[i] : i \in {k \in DOMAIN tbl : tbl[k].id = dbId}}

\* A faulty variant of Start: the statistics of the request are written to
\* the aggregate columns.
Start_TransfersStatistics(tbl, meta) ==
    Append(tbl,
        [NoJob EXCEPT !.id = Len(tbl) + 1,
                      !.job_id = meta.job_id,
                      !.user = meta.user,
                      !.cluster = meta.cluster,
                      !.start_time = meta.start_time,
                      !.duration = meta.duration,
                      !.job_state = meta.job_state,
                      !.monitoring_status = meta.monitoring_status,
                      !.mem_used_max = meta.statistics["mem_used"].Max])

\* Start: INSERT of the request's columns; the statistics columns keep their
\* schema default 0.  The new id is the next row id.
Start(tbl, meta) ==
    Append(tbl,
        [NoJob EXCEPT !.id = Len(tbl) + 1,
                      !.job_id = meta.job_id,
                      !.user = meta.user,
                      !.cluster = meta.cluster,
                      !.start_time = meta.start_time,
                      !.duration = meta.duration,
                      !.job_state = meta.job_state,
                      !.monitoring_status = meta.monitoring_status])

Stop_KeepsState(tbl, jobId, duration, state, monitoringStatus) ==
    [i \in DOMAIN tbl |->
        IF tbl[i].id = jobId
        THEN [tbl[i] EXCEPT !.duration = duration,
                            !.monitoring_status = monitoringStatus]
        ELSE tbl[i]]

\* Stop: UPDATE job SET job_state, duration, monitoring_status WHERE id = ?.
\* An id that matches no row updates nothing and reports no error.
Stop(tbl, jobId, duration, state, monitoringStatus) ==
    [i \in DOMAIN tbl |->
        IF tbl[i].id = jobId
        THEN [tbl[i] EXCEPT !.job_state = state,
                            !.duration = duration,
                            !.monitoring_status = monitoringStatus]
        ELSE tbl[i]]

\* A faulty variant of UpdateMonitoringStatus: the duration is reset too.
UpdateMonitoringStatus_ResetsDuration(tbl, jobId, monitoringStatus) ==
    [i \in DOMAIN tbl |->
        IF tbl[i].id = jobId
        THEN [tbl[i] EXCEPT !.monitoring_status = monitoringStatus,
                            !.duration = 0]
        ELSE tbl[i]]

\* UpdateMonitoringStatus: UPDATE job SET monitoring_status WHERE id = ?.
UpdateMonitoringStatus(tbl, jobId, monitoringStatus) ==
    [i \in DOMAIN tbl |->
        IF tbl[i].id = jobId
        THEN [tbl[i] EXCEPT !.monitoring_status = monitoringStatus]
        ELSE tbl[i]]

\* ---------------------------------------------------------------- start
Abs(x) == IF x < 0 THEN 0 - x ELSE x

\* The anti-duplicate-start guard of the start handler.
DuplicateStart(tbl, jobId, cluster, startTime) ==
    \E j \in Find(tbl, jobId, cluster, NoTime) :
        Abs(startTime - j.start_time) < GuardWindow

\* The statistics a start request may carry (JobMeta has the field); Start
\* does not insert them.
StartStatistics == [m \in {"mem_used"} |-> [Avg |-> 4, Max |-> 9]]

StartJobWith(maxJobs, times) ==
    \E jobId \in JobIds, cluster \in Clusters, startTime \in times :
        IF DuplicateStart(job, jobId, cluster, startTime)
        THEN /\ startResp' = [status |-> StatusUnprocessableEntity, dbid |-> 0,
                              job_id |-> jobId, cluster |-> cluster,
                              start_time |-> startTime]
             /\ UNCHANGED <<rest, job, stopReq, arch, wg, waiter, archive, reader, cache>>
        ELSE /\ Len(job) < maxJobs
             /\ job' = Start(job,
                    [job_id |-> jobId, user |-> "testuser", cluster |-> cluster,
                     start_time |-> startTime, duration |-> 0,
                     job_state |-> JobStateRunning,
                     monitoring_status |-> MonitoringStatusRunningOrArchiving,
                     statistics |-> StartStatistics])
             /\ startResp' = [status |-> StatusCreated, dbid |-> Len(job) + 1,
                              job_id |-> jobId, cluster |-> cluster,
                              start_time |-> startTime]
             /\ UNCHANGED <<rest, stopReq, arch, wg, waiter, archive, reader, cache>>

StartJob == StartJobWith(MaxJobs, StartTimes)

\* ------------------------------------------------------------ job data
MetricNames == {"load_one", "mem_used"}
Scopes == {"node", "core"}

\* A JobData maps metric names to scopes to series; a series is abstracted
\* to one number.
NoData == [m \in {} |-> [s \in {} |-> 0]]

\* What the live adapter holds for a job: the test adapter's callback returns
\* one fixed JobData whatever metrics and scopes are asked for.
AdapterData(dbId) ==
    [m \in MetricNames |->
        IF m = "load_one"
        THEN [s \in {"node"} |-> 10 * dbId + 1]
        ELSE [s \in Scopes |-> IF s = "node" THEN 10 * dbId + 2
                                             ELSE 10 * dbId + 3]]

\* The per-metric statistics the archiving pipeline computes over the node
\* series of the data it archives (abstractly: the maximum lies one above
\* the average).
Statistics(jd) ==
    [m \in {n \in DOMAIN jd : "node" \in DOMAIN jd[n]} |->
        [Avg |-> jd[m]["node"], Max |-> jd[m]["node"] + 1]]

\* A faulty variant of Archive: the aggregate columns whose metric is absent
\* from metricStats are reset.
Archive_ResetsAbsent(tbl, jobId, monitoringStatus, metricStats) ==
    LET has(m) == m \in DOMAIN metricStats
    IN  [i \in DOMAIN tbl |->
            IF tbl[i].id = jobId
            THEN [tbl[i] EXCEPT
                    !.monitoring_status = monitoringStatus,
                    !.flops_any_avg = IF has("flops_any")
                                      THEN metricStats["flops_any"].Avg ELSE 0,
                    !.mem_used_max = IF has("mem_used")
                                     THEN metricStats["mem_used"].Max ELSE 0,
                    !.mem_bw_avg = IF has("mem_bw")
                                   THEN metricStats["mem_bw"].Avg ELSE 0,
                    !.load_avg = IF has("load")
                                 THEN metricStats["load"].Avg ELSE 0,
                    !.net_bw_avg = IF has("net_bw")
                                   THEN metricStats["net_bw"].Avg ELSE 0,
                    !.file_bw_avg = IF has("file_bw")
                                    THEN metricStats["file_bw"].Avg ELSE 0]
            ELSE tbl[i]]

Archive_NoUpdate(tbl, jobId, monitoringStatus, metricStats) ==
    tbl

\* Archive: UPDATE job SET monitoring_status and the aggregate columns whose
\* metric is a key of metricStats; other metric names fall through the switch.
Archive(tbl, jobId, monitoringStatus, metricStats) ==
    LET has(m) == m \in DOMAIN metricStats
    IN  [i \in DOMAIN tbl |->
            IF tbl[i].id = jobId
            THEN [tbl[i] EXCEPT
                    !.monitoring_status = monitoringStatus,
                    !.flops_any_avg = IF has("flops_any")
                                      THEN metricStats["flops_any"].Avg ELSE @,
                    !.mem_used_max = IF has("mem_used")
                                     THEN metricStats["mem_used"].Max ELSE @,
                    !.mem_bw_avg = IF has("mem_bw")
                                   THEN metricStats["mem_bw"].Avg ELSE @,
                    !.load_avg = IF has("load")
                                 THEN metricStats["load"].Avg ELSE @,
                    !.net_bw_avg = IF has("net_bw")
                                   THEN metricStats["net_bw"].Avg ELSE @,
                    !.file_bw_avg = IF has("file_bw")
                                    THEN metricStats["file_bw"].Avg ELSE @]
            ELSE tbl[i]]

\* What Exec reports for an UPDATE ... WHERE job.id = ?: the number of rows
\* matched, and an error only when the statement itself fails (not modelled).
\* An UPDATE that matches no row is a successful statement.
ExecUpdate(tbl, jobId) ==
    [RowsAffected |-> Cardinality({i \in DOMAIN tbl : tbl[i].id = jobId}),
     err |-> FALSE]

\* The error Stop returns: Exec's, its sql.Result is dropped.
StopErr(tbl, jobId) == ExecUpdate(tbl, jobId).err

\* The error Archive returns: Exec's, its sql.Result is dropped.
ArchiveErr(tbl, jobId) == ExecUpdate(tbl, jobId).err

\* strconv.Atoi on the search terms used: an optional sign and decimal
\* digits parse, anything else (the empty string included) is an error.
Atoi(str) ==
    CASE str = "123" -> [ok |-> TRUE, n |-> 123]
      [] str = "+123" -> [ok |-> TRUE, n |-> 123]
      [] str = "456" -> [ok |-> TRUE, n |-> 456]
      [] OTHER -> [ok |-> FALSE, n |-> 0]

\* The user of a request context: auth.GetUser yields nil without one.
NilUser == [nil |-> TRUE, Username |-> "", admin |-> FALSE]

ErrNotFound == "no such job or user"

\* A faulty variant of FindJobOrUser: the job lookup is not restricted to
\* the caller's own jobs.
FindJobOrUser_NoOwnerFilter(tbl, user, searchterm) ==
    LET id == Atoi(searchterm)
        restricted == ~user.nil /\ ~user.admin
        jobs == IF id.ok
                THEN {tbl[i].id : i \in {k \in DOMAIN tbl :
                                            tbl[k].job_id = id.n}}
                ELSE {}
        names == IF ~restricted
                 THEN {tbl[i].user : i \in {k \in DOMAIN tbl :
                                               tbl[k].user = searchterm}}
                 ELSE {}
    IN  IF jobs # {}
        THEN {[job |-> j, username |-> "", err |-> ""] : j \in jobs}
        ELSE IF names # {}
        THEN {[job |-> 0, username |-> n, err |-> ""] : n \in names}
        ELSE {[job |-> 0, username |-> "", err |-> ErrNotFound]}

\* FindJobOrUser: the results the call can return.  A search term that
\* parses as an integer is looked up as job.job_id, among the caller's own
\* jobs when the caller is a user without the admin role; QueryRow yields
\* one of the matching rows.  Without a job match, and only for no user or
\* an admin, the term is looked up as job.user.
FindJobOrUser(tbl, user, searchterm) ==
    LET id == Atoi(searchterm)
        restricted == ~user.nil /\ ~user.admin
        jobs == IF id.ok
                THEN {tbl[i].id : i \in {k \in DOMAIN tbl :
                        /\ tbl[k].job_id = id.n
                        /\ (restricted => tbl[k].user = user.Username)}}
                ELSE {}
        names == IF ~restricted
                 THEN {tbl[i].user : i \in {k \in DOMAIN tbl :
                                               tbl[k].user = searchterm}}
                 ELSE {}
    IN  IF jobs # {}
        THEN {[job |-> j, username |-> "", err |-> ""] : j \in jobs}
        ELSE IF names # {}
        THEN {[job |-> 0, username |-> n, err |-> ""] : n \in names}
        ELSE {[job |-> 0, username |-> "", err |-> ErrNotFound]}

\* ----------------------------------------------------- request records
IdleStop ==
    [pc |-> "idle", state |-> "", stop_time |-> 0, job |-> NoJob, status |-> 0]

NoTask == [pc |-> "none", dbid |-> 0, obs_state |-> "", obs_duration |-> 0]

\* ----------------------------------------------------------------- stop
\* The stop handler looks the job up; without a running match it answers 404.
\* (Requests are numbered in the order in which they arrive.)
StopJob_Find(r) ==
    /\ stopReq[r].pc = "idle"
    /\ \A q \in StopReqs : q < r => stopReq[q].pc # "idle"
    /\ \E jobId \in JobIds, cluster \in Clusters,
          startTime \in StartTimes \cup {NoTime},
          state \in TerminalStates, stopTime \in StopTimes :
        LET found == Find(job, jobId, cluster, startTime)
        IN  \/ /\ found = {}
               /\ stopReq' = [stopReq EXCEPT ![r] =
                      [IdleStop EXCEPT !.pc = "done", !.status = StatusNotFound]]
            \/ \E j \in found :
                  stopReq' = [stopReq EXCEPT ![r] =
                      IF j.job_state = JobStateRunning
                      THEN [IdleStop EXCEPT !.pc = "found", !.job = j,
                                            !.state = state,
                                            !.stop_time = stopTime]
                      ELSE [IdleStop EXCEPT !.pc = "done",
                                            !.status = StatusNotFound]]
    /\ UNCHANGED <<rest, job, startResp, arch, wg, waiter, archive, reader, cache>>

\* It marks the job stopped in the database: duration = stopTime - startTime,
\* the requested terminal state, the monitoring status as found.
StopJob_Update(r) ==
    /\ stopReq[r].pc = "found"
    /\ job' = Stop(job, stopReq[r].job.id,
                   stopReq[r].stop_time - stopReq[r].job.start_time,
                   stopReq[r].state, stopReq[r].job.monitoring_status)
    /\ stopReq' = [stopReq EXCEPT ![r].pc = "updated"]
    /\ UNCHANGED <<rest, startResp, arch, wg, waiter, archive, reader, cache>>

\* It registers the archiving task with the wait group and starts it.
StopJob_Trigger(r) ==
    /\ stopReq[r].pc = "updated"
    /\ wg' = wg + 1
    /\ arch' = [arch EXCEPT ![r] =
                   [NoTask EXCEPT !.pc = "registered",
                                  !.dbid = stopReq[r].job.id]]
    /\ stopReq' = [stopReq EXCEPT ![r].pc = "triggered"]
    /\ UNCHANGED <<rest, job, startResp, waiter, archive, reader, cache>>

\* It answers 200.
StopJob_Respond(r) ==
    /\ stopReq[r].pc = "triggered"
    /\ stopReq' = [stopReq EXCEPT ![r].pc = "done", ![r].status = StatusOK]
    /\ UNCHANGED <<rest, job, startResp, arch, wg, waiter, archive, reader, cache>>

\* ------------------------------------------------------------ archiving
\* The task's first read of the job, then the pull from the live adapter,
\* which answers or fails.
ArchiveJob_Load(r) ==
    /\ arch[r].pc = "registered"
    /\ \E j \in FindById(job, arch[r].dbid), ok \in BOOLEAN :
          arch' = [arch EXCEPT ![r].pc = IF ok THEN "loaded" ELSE "failed",
                               ![r].obs_state = j.job_state,
                               ![r].obs_duration = j.duration]
    /\ UNCHANGED <<rest, job, startResp, stopReq, wg, waiter, archive, reader, cache>>

\* The archive entry is written.
ArchiveJob_Write(r) ==
    /\ arch[r].pc = "loaded"
    /\ archive' = [archive EXCEPT ![arch[r].dbid] = AdapterData(arch[r].dbid)]
    /\ arch' = [arch EXCEPT ![r].pc = "written", ![r].obs_state = "",
                             ![r].obs_duration = 0]
    /\ UNCHANGED <<rest, job, startResp, stopReq, wg, waiter, reader, cache>>

\* The job row is updated one last time.
ArchiveJob_Archive(r) ==
    /\ arch[r].pc = "written"
    /\ job' = Archive(job, arch[r].dbid, MonitoringStatusArchivingSuccessful,
                      Statistics(archive[arch[r].dbid]))
    /\ arch' = [arch EXCEPT ![r].pc = "archived"]
    /\ UNCHANGED <<rest, startResp, stopReq, wg, waiter, archive, reader, cache>>

\* A failed pull is recorded in the monitoring status only.
ArchiveJob_Fail(r) ==
    /\ arch[r].pc = "failed"
    /\ job' = UpdateMonitoringStatus(job, arch[r].dbid,
                                     MonitoringStatusArchivingFailed)
    /\ arch' = [arch EXCEPT ![r].pc = "marked", ![r].obs_state = "",
                             ![r].obs_duration = 0]
    /\ UNCHANGED <<rest, startResp, stopReq, wg, waiter, archive, reader, cache>>

\* The task deregisters.
ArchiveJob_Done(r) ==
    /\ arch[r].pc \in {"archived", "marked"}
    /\ wg' = wg - 1
    /\ arch' = [arch EXCEPT ![r].pc = IF arch[r].pc = "archived"
                                     THEN "done" ELSE "done_failed"]
    /\ UNCHANGED <<rest, job, startResp, stopReq, waiter, archive, reader, cache>>

\* ------------------------------------------------------------ LoadData
\* A nil slice.
Nil == <<>>

Range(seq) == {seq[i] : i \in DOMAIN seq}

Restrict(f, S) == [x \in (DOMAIN f) \cap S |-> f[x]]

\* The metric and scope lists callers pass.
MetricArgs == {Nil, <<"mem_used">>}
ScopeArgs == {Nil, <<"node">>}

\* The clusters with a registered metric data repository, and the metrics
\* configured per cluster.
metricDataRepos == Clusters
MetricConfig == <<"load_one", "mem_used">>

\* Cache lifetimes in minutes.
TTLArchived == 300
TTLRunning == 2

\* An error value in place of a JobData.
ErrValue == [err |-> TRUE, jd |-> NoData]
DataValue(jd) == [err |-> FALSE, jd |-> jd]

\* repo.LoadData of the live adapter: it answers with its data, with a part
\* of it and an error, or with an error alone.
AdapterOutcomes == {"ok", "partial", "error"}

AdapterLoadData(dbId, metrics, scopes, outcome) ==
    CASE outcome = "ok" -> [jd |-> AdapterData(dbId), err |-> FALSE]
      [] outcome = "partial" ->
            [jd |-> Restrict(AdapterData(dbId), {"load_one"}), err |-> TRUE]
      [] OTHER -> [jd |-> NoData, err |-> TRUE]

\* loadFromArchive: the archive entry of the job, an error when there is none.
loadFromArchive(store, j) ==
    IF store[j.id] = NoData THEN [jd |-> NoData, err |-> TRUE]
    ELSE [jd |-> store[j.id], err |-> FALSE]

\* jd.Size(): the cache weight of a JobData, here its number of metrics.
Size(jd) == Cardinality(DOMAIN jd)

\* prepareJobData adds a statistics series to metrics with more than 15
\* series and a node scope to flops_any and mem_bw; the data here holds one
\* series per metric and scope and neither of the two metrics, so it is left
\* as it is.
prepareJobData(jd, scopes) == jd


\* cacheKey: "%d(%s):[%v],[%v]" of job.ID, job.State, metrics, scopes.
cacheKey(j, metrics, scopes) == <<j.id, j.job_state, metrics, scopes>>

\* The archive path's filter on the requested metrics and scopes.
TrimArchive(jd, metrics, scopes) ==
    IF metrics = Nil /\ scopes = Nil THEN jd
    ELSE LET ms == IF metrics = Nil THEN DOMAIN jd ELSE Range(metrics)
         IN  [m \in ms \cap DOMAIN jd |->
                LET perscope == jd[m]
                    subset == Restrict(perscope, Range(scopes))
                IN  IF Cardinality(DOMAIN perscope) > 1 /\ DOMAIN subset # {}
                    THEN subset ELSE perscope]

\* Faulty variants of the three operators below: the routing looks at the
\* job state only, every entry lives as long as an archived one, and every
\* adapter error is a failure.
UseLive_StateOnly(j, archiveUsed) ==
    j.job_state = JobStateRunning \/ ~archiveUsed

TTLOf_AlwaysArchived(j) == TTLArchived

HardFailure_AnyError(res) == res.err

\* LoadData's routing: the live adapter for a running job, for a job still
\* in monitoring status running-or-archiving, and with archiving disabled.
UseLive(j, archiveUsed) ==
    \/ j.job_state = JobStateRunning
    \/ j.monitoring_status = MonitoringStatusRunningOrArchiving
    \/ ~archiveUsed

\* The ttl of a computed value.
TTLOf(j) == IF j.job_state = JobStateRunning THEN TTLRunning ELSE TTLArchived

\* An adapter error is fatal only when no data comes with it.
HardFailure(res) == res.err /\ DOMAIN res.jd = {}

\* The function LoadData hands to cache.Get: value, ttl and size; "from" is
\* the backend that was read.
LoadDataCompute(j, metrics, scopes, archiveUsed, outcome, store) ==
    LET failed(from) == [val |-> ErrValue, ttl |-> 0, size |-> 0, from |-> from]
    IN  IF UseLive(j, archiveUsed)
        THEN IF j.cluster \notin metricDataRepos THEN failed("none")
             ELSE LET scopes1 == IF scopes = Nil THEN <<"node">> ELSE scopes
                      metrics1 == IF metrics = Nil THEN MetricConfig ELSE metrics
                      res == AdapterLoadData(j.id, metrics1, scopes1, outcome)
                  IN  IF HardFailure(res) THEN failed("live")
                      ELSE [val |-> DataValue(prepareJobData(res.jd, scopes1)),
                            ttl |-> TTLOf(j), size |-> Size(res.jd),
                            from |-> "live"]
        ELSE LET res == loadFromArchive(store, j)
             IN  IF res.err THEN failed("archive")
                 ELSE [val |-> DataValue(prepareJobData(
                                   TrimArchive(res.jd, metrics, scopes), scopes)),
                       ttl |-> TTLOf(j), size |-> 1, from |-> "archive"]

\* Archiving is enabled (metricdata.Init with disableArchive = false).
useArchive == TRUE

\* -------------------------------------------------------- LoadAverages
\* A schema.Float: a number or NaN.
Float(v) == [nan |-> FALSE, v |-> v]
NaN == [nan |-> TRUE, v |-> 0]

\* What repo.LoadStats answers: per metric and host the average, or an
\* error.  The adapter has nothing for flops_any and no host for net_bw.
StatsOutcomes == {"ok", "error"}

AdapterLoadStats(outcome) ==
    IF outcome = "ok"
    THEN [stats |-> [m \in {"load_one", "mem_used", "net_bw"} |->
                        CASE m = "load_one" ->
                                 [h \in {"host1", "host2"} |->
                                     IF h = "host1" THEN 3 ELSE 4]
                          [] m = "mem_used" -> [h \in {"host1"} |-> 5]
                          [] OTHER -> [h \in {} |-> 0]],
          err |-> FALSE]
    ELSE [stats |-> [m \in {} |-> [h \in {} |-> 0]], err |-> TRUE]

\* sum := 0.0; for _, node := range nodes { sum += node.Avg }
RECURSIVE SumAvg(_)
SumAvg(nodes) ==
    IF DOMAIN nodes = {} THEN 0
    ELSE LET h == CHOOSE x \in DOMAIN nodes : TRUE
         IN  nodes[h] + SumAvg([x \in DOMAIN nodes \ {h} |-> nodes[x]])

\* A faulty variant of AverageOf: 0 for a metric the adapter does not have.
AverageOf_ZeroWhenMissing(stats, m) ==
    IF m \in DOMAIN stats THEN Float(SumAvg(stats[m])) ELSE Float(0)

\* The value LoadAverages appends for metric m.
AverageOf(stats, m) ==
    IF m \in DOMAIN stats THEN Float(SumAvg(stats[m])) ELSE NaN

\* loadAveragesFromArchive: the averages kept with the job's archive entry,
\* an error without an entry.
loadAveragesFromArchive(store, j, metrics, data) ==
    IF store[j.id] = NoData THEN [data |-> data, err |-> TRUE, from |-> "archive"]
    ELSE [data |-> [i \in DOMAIN data |->
                      IF i \notin DOMAIN metrics THEN data[i]
                      ELSE IF metrics[i] \in DOMAIN Statistics(store[j.id])
                      THEN Append(data[i],
                                  Float(Statistics(store[j.id])[metrics[i]].Avg))
                      ELSE Append(data[i], NaN)],
          err |-> FALSE, from |-> "archive"]

\* A faulty variant of AveragesFromArchive: the archive also for a running
\* job.
AveragesFromArchive_Always(j, archiveUsed) == archiveUsed

\* LoadAverages' routing: the archive for a job that is not running, when
\* archiving is enabled.
AveragesFromArchive(j, archiveUsed) ==
    j.job_state # JobStateRunning /\ archiveUsed

\* LoadAverages: the columns of data after the call, the error, and the
\* backend that was read.
LoadAverages(j, metrics, data, archiveUsed, outcome, store) ==
    IF AveragesFromArchive(j, archiveUsed)
    THEN loadAveragesFromArchive(store, j, metrics, data)
    ELSE IF j.cluster \notin metricDataRepos
    THEN [data |-> data, err |-> TRUE, from |-> "none"]
    ELSE LET res == AdapterLoadStats(outcome)
         IN  IF res.err THEN [data |-> data, err |-> TRUE, from |-> "live"]
             ELSE [data |-> [i \in DOMAIN data |->
                               IF i \in DOMAIN metrics
                               THEN Append(data[i],
                                           AverageOf(res.stats, metrics[i]))
                               ELSE data[i]],
                   err |-> FALSE, from |-> "live"]

\* -------------------------------------------------------- LoadNodeData
\* What repo.LoadNodeData answers: a nil map, an empty map or a map with
\* data, each with or without an error.
NilNodeData == [nil |-> TRUE, hosts |-> [h \in {} |-> 0]]
EmptyNodeData == [nil |-> FALSE, hosts |-> [h \in {} |-> 0]]
SomeNodeData == [nil |-> FALSE, hosts |-> [h \in {"host1"} |-> 21]]

NodeDataOutcomes ==
    [data : {NilNodeData, EmptyNodeData, SomeNodeData}, err : BOOLEAN]

\* A faulty variant of NodeHardFailure: every adapter error is fatal.
NodeHardFailure_AnyError(res) == res.err

\* An adapter error is fatal only when no data comes with it (len(data) = 0).
NodeHardFailure(res) == res.err /\ DOMAIN res.data.hosts = {}

\* LoadNodeData: the data returned, the error ("" for nil) and the metrics
\* the adapter was asked for.
LoadNodeData(cluster, metrics, res) ==
    LET asked == IF metrics = Nil THEN MetricConfig ELSE metrics
    IN  IF cluster \notin metricDataRepos
        THEN [data |-> NilNodeData, err |-> "no repository", asked |-> Nil,
              from |-> "none"]
        ELSE IF NodeHardFailure(res)
        THEN [data |-> NilNodeData, err |-> "adapter", asked |-> asked,
              from |-> "live"]
        ELSE IF res.data.nil
        THEN [data |-> NilNodeData, err |-> "not supported", asked |-> asked,
              from |-> "live"]
        ELSE [data |-> res.data, err |-> "", asked |-> asked,
              from |-> "live"]

\* ---------------------------------------------------------------- cache
IdleReader ==
    [pc |-> "idle", job |-> NoJob, metrics |-> Nil, scopes |-> Nil,
     result |-> ErrValue, drained |-> FALSE, hit |-> FALSE]

\* A cache entry: being computed, or a value with the time it expires at.
Computing == [computing |-> TRUE, val |-> ErrValue, expires |-> 0]
Entry(val, ttl) == [computing |-> FALSE, val |-> val, expires |-> now + ttl]

CacheDel(c, key) == [k \in (DOMAIN c) \ {key} |-> c[k]]
CachePut(c, key, entry) == [k \in (DOMAIN c) \cup {key} |->
                               IF k = key THEN entry ELSE c[k]]

KeyOf(r) == cacheKey(reader[r].job, reader[r].metrics, reader[r].scopes)

Accepted(r) == stopReq[r].status = StatusOK

\* Every archiving that was started for the job has finished and none is in
\* flight: what a caller knows after OngoingArchivings.Wait().
Drained(dbId) ==
    /\ wg = 0
    /\ \E q \in StopReqs : Accepted(q) /\ stopReq[q].job.id = dbId
    /\ \A q \in StopReqs : stopReq[q].job.id = dbId => stopReq[q].pc = "done"

\* An entry that is being computed, or whose ttl has not elapsed.
Live(key) ==
    /\ key \in DOMAIN cache
    /\ (cache[key].computing \/ now < cache[key].expires)

\* A faulty variant of CacheGet: a caller that finds its key being computed
\* computes as well.
CacheGet_NoSingleFlight(r, rd, key) ==
    IF Live(key) /\ ~cache[key].computing
    THEN /\ reader' = [reader EXCEPT ![r] =
                [rd EXCEPT !.pc = "returned", !.hit = TRUE,
                           !.result = cache[key].val]]
         /\ UNCHANGED cache
    ELSE /\ reader' = [reader EXCEPT ![r] = [rd EXCEPT !.pc = "computing"]]
         /\ cache' = CachePut(cache, key, Computing)

\* cache.Get up to the call of the compute function: a present entry whose
\* ttl has not elapsed is returned, an entry being computed is waited for,
\* and otherwise the caller marks the key as being computed and computes.
CacheGet(r, rd, key) ==
    IF Live(key)
    THEN IF cache[key].computing
         THEN /\ reader' = [reader EXCEPT ![r] = [rd EXCEPT !.pc = "waiting"]]
              /\ UNCHANGED cache
         ELSE /\ reader' = [reader EXCEPT ![r] =
                     [rd EXCEPT !.pc = "returned", !.hit = TRUE,
                                !.result = cache[key].val]]
              /\ UNCHANGED cache
    ELSE /\ reader' = [reader EXCEPT ![r] = [rd EXCEPT !.pc = "computing"]]
         /\ cache' = CachePut(cache, key, Computing)

\* A caller reads a job row and calls LoadData with it.
\* (Callers are numbered in the order in which they call.)
LoadData_Call(r) ==
    /\ reader[r].pc = "idle"
    /\ \A q \in Readers : q < r => reader[q].pc # "idle"
    /\ \E i \in DOMAIN job, metrics \in MetricArgs, scopes \in ScopeArgs :
          CacheGet(r,
                   [IdleReader EXCEPT !.job = job[i], !.metrics = metrics,
                                      !.scopes = scopes, !.drained = Drained(i)],
                   cacheKey(job[i], metrics, scopes))
    /\ UNCHANGED <<rest, job, startResp, stopReq, arch, wg, waiter, archive>>

\* The compute function runs; cache.Get stores its value unless the ttl is 0
\* and hands it to the caller and to every caller waiting for this key.
\* (The value is marked with the backend it was read from.)
LoadData_Compute(r) ==
    /\ reader[r].pc = "computing"
    /\ \E outcome \in AdapterOutcomes :
        LET c == LoadDataCompute(reader[r].job, reader[r].metrics,
                                 reader[r].scopes, useArchive, outcome, archive)
            val == [err |-> c.val.err, jd |-> c.val.jd, from |-> c.from]
            key == KeyOf(r)
        IN  /\ reader' = [q \in Readers |->
                    IF q = r \/ (reader[q].pc = "waiting" /\ KeyOf(q) = key)
                    THEN [reader[q] EXCEPT !.pc = "returned", !.result = val]
                    ELSE reader[q]]
            /\ cache' = IF c.ttl > 0
                        THEN CachePut(cache, key, Entry(val, c.ttl))
                        ELSE CacheDel(cache, key)
    /\ UNCHANGED <<rest, job, startResp, stopReq, arch, wg, waiter, archive>>

\* An entry's ttl elapses, or the entry is evicted.
Cache_Expire ==
    /\ \E key \in DOMAIN cache :
          /\ ~cache[key].computing
          /\ cache' = CacheDel(cache, key)
    /\ UNCHANGED <<rest, job, startResp, stopReq, arch, wg, waiter, archive, reader>>

\* Time passes, up to the last minute before an entry expires or up to the
\* minute it expires at (no other instant changes what a call finds).
Tick ==
    /\ \E key \in DOMAIN cache, d \in {0, 1} :
          /\ ~cache[key].computing
          /\ cache[key].expires - d > now
          /\ cache[key].expires - d <= MaxNow
          /\ now' = cache[key].expires - d
    /\ UNCHANGED <<job, startResp, stopReq, arch, wg, waiter, archive, reader,
                   cache, probe, tag, jobtag, tagCall, cfgVars>>

\* ----------------------------------------------------------------- wait
Wait_Call ==
    /\ waiter.pc = "idle"
    /\ waiter' = [pc |-> "waiting",
                  after |-> {r \in StopReqs : stopReq[r].status = StatusOK}]
    /\ UNCHANGED <<rest, job, startResp, stopReq, arch, wg, archive, reader, cache>>

Wait_Return ==
    /\ waiter.pc = "waiting"
    /\ wg = 0
    /\ waiter' = [waiter EXCEPT !.pc = "returned"]
    /\ UNCHANGED <<rest, job, startResp, stopReq, arch, wg, archive, reader, cache>>

\* --------------------------------------------------------------- config
Users == {"testuser"}
ConfKeys == {"plot_list_jobsPerPage"}

\* The values the configuration table can hold (UpdateConfig stores the
\* value of an authenticated user as it comes), and their lengths.
RawVals == {"25", "{bad"}
StrLen(str) ==
    CASE str = "25" -> 2
      [] str = "{bad" -> 4
      [] str = "plot_list_jobsPerPage" -> 21

\* json.Unmarshal of a stored value.
Unmarshal(raw) ==
    IF raw = "25" THEN [err |-> FALSE, val |-> 25]
    ELSE [err |-> TRUE, val |-> 0]

\* The rows of the configuration table for one user, by key.
NoRows == [k \in {} |-> ""]
RowsOf(tbl, user) == IF user \in DOMAIN tbl THEN tbl[user] ELSE NoRows

RECURSIVE SumLen(_, _)
SumLen(rows, keys) ==
    IF keys = {} THEN 0
    ELSE LET k == CHOOSE x \in keys : TRUE
         IN  StrLen(k) + StrLen(rows[k]) + SumLen(rows, keys \ {k})

\* The ttl of a computed configuration, in minutes.
TTLConfig == 1440

CfgErr == [err |-> TRUE, cfg |-> NoRows]

QueryOutcomes == {"ok", "query", "scan"}

\* A faulty variant of GetUIConfigCompute: an error lives as long as a
\* configuration.
GetUIConfigCompute_KeepsErrors(defaults, rows, outcome) ==
    IF outcome = "ok" /\ \A k \in DOMAIN rows : ~Unmarshal(rows[k]).err
    THEN [val |-> [err |-> FALSE, cfg |-> defaults], ttl |-> TTLConfig,
          size |-> SumLen(rows, DOMAIN rows)]
    ELSE [val |-> CfgErr, ttl |-> TTLConfig, size |-> 0]

\* The function GetUIConfig hands to cache.Get: the defaults overlaid with
\* the user's rows; a failing query, a failing scan of a row and a value that
\* is no JSON end it with the error, ttl 0 and size 0.
GetUIConfigCompute(defaults, rows, outcome) ==
    LET failed == [val |-> CfgErr, ttl |-> 0, size |-> 0]
    IN  IF outcome = "query" THEN failed
        ELSE IF outcome = "scan" /\ DOMAIN rows # {} THEN failed
        ELSE IF \E k \in DOMAIN rows : Unmarshal(rows[k]).err THEN failed
        ELSE [val |-> [err |-> FALSE,
                       cfg |-> [k \in DOMAIN defaults \cup DOMAIN rows |->
                                  IF k \in DOMAIN rows
                                  THEN Unmarshal(rows[k]).val
                                  ELSE defaults[k]]],
              ttl |-> TTLConfig,
              size |-> SumLen(rows, DOMAIN rows)]

\* The RWMutex: the callers of GetUIConfig holding it for reading, and the
\* caller of UpdateConfig holding it for writing (0 for none).
Unlocked == [readers |-> {}, writer |-> 0]

\* A call of UpdateConfig; user "" stands for a context without user.
IdleUpdate ==
    [pc |-> "idle", user |-> "", key |-> "", value |-> "", err |-> FALSE]

\* A call of GetUIConfig.  "reading" tells whether the compute function's
\* loop over uiDefaults has begun, "seen" is uiDefaults as it was then,
\* "raced" whether uiDefaults was written during the loop, and "after" the
\* calls of UpdateConfig that had returned without error when this call
\* arrived.
IdleUiCall ==
    [pc |-> "idle", user |-> "", result |-> CfgErr, hit |-> FALSE,
     reading |-> FALSE, seen |-> [k \in {} |-> 0], raced |-> FALSE,
     after |-> {}]

Returned == {u \in Updaters : updCall[u].pc = "done" /\ ~updCall[u].err}

UiLive(key) ==
    /\ key \in DOMAIN uiCache
    /\ (uiCache[key].computing \/ now < uiCache[key].expires)

\* GetUIConfig of an authenticated user, up to the call of the compute
\* function.
GetUIConfig_Call(c) ==
    /\ uiCall[c].pc = "idle"
    /\ \A q \in UiCallers : q < c => uiCall[q].pc # "idle"
    /\ \E user \in Users :
          LET call == [IdleUiCall EXCEPT !.user = user, !.after = Returned]
          IN  IF UiLive(user)
              THEN IF uiCache[user].computing
                   THEN /\ uiCall' = [uiCall EXCEPT ![c] =
                               [call EXCEPT !.pc = "waiting"]]
                        /\ UNCHANGED uiCache
                   ELSE /\ uiCall' = [uiCall EXCEPT ![c] =
                               [call EXCEPT !.pc = "returned", !.hit = TRUE,
                                            !.result = uiCache[user].val]]
                        /\ UNCHANGED uiCache
              ELSE /\ uiCall' = [uiCall EXCEPT ![c] =
                          [call EXCEPT !.pc = "computing"]]
                   /\ uiCache' = CachePut(uiCache, user,
                                     [computing |-> TRUE, val |-> CfgErr,
                                      expires |-> 0])
    /\ UNCHANGED <<job, startResp, stopReq, arch, wg, waiter, archive, reader,
                   cache, now, probe, tag, jobtag, tagCall, uiDefaults,
                   configuration, lock, updCall>>

\* The compute function begins its loop over uiDefaults; it does not take
\* the lock.
GetUIConfig_CopyDefaults(c) ==
    /\ uiCall[c].pc = "computing"
    /\ ~uiCall[c].reading
    /\ uiCall' = [uiCall EXCEPT ![c] =
                     [@ EXCEPT !.reading = TRUE, !.seen = uiDefaults]]
    /\ UNCHANGED <<job, startResp, stopReq, arch, wg, waiter, archive, reader,
                   cache, now, probe, tag, jobtag, tagCall, uiDefaults,
                   configuration, uiCache, lock, updCall>>

\* The loop ends, the user's rows are queried and the compute function
\* returns; its value goes to the caller and to the callers waiting for the
\* user's entry, and into the cache unless the ttl is 0.  A loop during which
\* uiDefaults was written is a data race: it has read the map as it was
\* before or as it is now, or the runtime has stopped the program.
GetUIConfig_Compute(c) ==
    /\ uiCall[c].pc = "computing"
    /\ uiCall[c].reading
    /\ \/ /\ uiCall[c].raced
          /\ uiCall' = [uiCall EXCEPT ![c].pc = "fatal",
                                       ![c].reading = FALSE]
          /\ UNCHANGED uiCache
       \/ \E outcome \in QueryOutcomes,
             defaults \in {uiCall[c].seen} \cup
                          (IF uiCall[c].raced THEN {uiDefaults} ELSE {}) :
            LET user == uiCall[c].user
                v == GetUIConfigCompute(defaults,
                                        RowsOf(configuration, user), outcome)
            IN  /\ uiCall' = [q \in UiCallers |->
                        IF q = c \/ (uiCall[q].pc = "waiting"
                                     /\ uiCall[q].user = user)
                        THEN [uiCall[q] EXCEPT !.pc = "returned",
                                               !.reading = FALSE,
                                               !.result = v.val]
                        ELSE uiCall[q]]
                /\ uiCache' = IF v.ttl > 0
                              THEN CachePut(uiCache, user, Entry(v.val, v.ttl))
                              ELSE CacheDel(uiCache, user)
    /\ UNCHANGED <<job, startResp, stopReq, arch, wg, waiter, archive, reader,
                   cache, now, probe, tag, jobtag, tagCall, uiDefaults,
                   configuration, lock, updCall>>

\* GetUIConfig without a user: the defaults are copied under the read lock.
GetUIConfig_RLock(c) ==
    /\ uiCall[c].pc = "idle"
    /\ \A q \in UiCallers : q < c => uiCall[q].pc # "idle"
    /\ lock.writer = 0
    /\ lock' = [lock EXCEPT !.readers = @ \cup {c}]
    /\ uiCall' = [uiCall EXCEPT ![c] =
                     [IdleUiCall EXCEPT !.pc = "rlocked", !.reading = TRUE,
                                        !.seen = uiDefaults,
                                        !.after = Returned]]
    /\ UNCHANGED <<job, startResp, stopReq, arch, wg, waiter, archive, reader,
                   cache, now, probe, tag, jobtag, tagCall, uiDefaults,
                   configuration, uiCache, updCall>>

GetUIConfig_RUnlock(c) ==
    /\ uiCall[c].pc = "rlocked"
    /\ lock' = [lock EXCEPT !.readers = @ \ {c}]
    /\ uiCall' = [uiCall EXCEPT ![c] =
                     [@ EXCEPT !.pc = "returned", !.reading = FALSE,
                               !.result = [err |-> FALSE, cfg |-> uiDefaults]]]
    /\ UNCHANGED <<job, startResp, stopReq, arch, wg, waiter, archive, reader,
                   cache, now, probe, tag, jobtag, tagCall, uiDefaults,
                   configuration, uiCache, updCall>>

\* cache.Del: the entry is removed; an entry that is being computed stays.
UiCacheDel(c, key) ==
    IF key \in DOMAIN c /\ ~c[key].computing THEN CacheDel(c, key) ELSE c

\* REPLACE INTO configuration (username, confkey, value).
ReplaceInto(tbl, user, key, value) ==
    [u \in DOMAIN tbl \cup {user} |->
        IF u = user
        THEN [k \in DOMAIN RowsOf(tbl, user) \cup {key} |->
                 IF k = key THEN value ELSE RowsOf(tbl, user)[k]]
        ELSE tbl[u]]

\* UpdateConfig arrives.  Without a user the value must be JSON, and the
\* call goes on to take the lock; with a user the user's cache entry is
\* deleted first.
UpdateConfig_Call(u) ==
    /\ updCall[u].pc = "idle"
    /\ \A q \in Updaters : q < u => updCall[q].pc # "idle"
    /\ \E user \in Users \cup {""}, key \in ConfKeys, value \in RawVals :
          LET call == [IdleUpdate EXCEPT !.user = user, !.key = key,
                                         !.value = value]
          IN  IF user = ""
              THEN /\ updCall' = [updCall EXCEPT ![u] =
                          IF Unmarshal(value).err
                          THEN [call EXCEPT !.pc = "done", !.err = TRUE]
                          ELSE [call EXCEPT !.pc = "locking"]]
                   /\ UNCHANGED uiCache
              ELSE /\ updCall' = [updCall EXCEPT ![u] =
                          [call EXCEPT !.pc = "deleted"]]
                   /\ uiCache' = UiCacheDel(uiCache, user)
    /\ UNCHANGED <<job, startResp, stopReq, arch, wg, waiter, archive, reader,
                   cache, now, probe, tag, jobtag, tagCall, uiDefaults,
                   configuration, uiCall, lock>>

\* lock.Lock()
UpdateConfig_Lock(u) ==
    /\ updCall[u].pc = "locking"
    /\ lock = Unlocked
    /\ lock' = [lock EXCEPT !.writer = u]
    /\ updCall' = [updCall EXCEPT ![u].pc = "writing"]
    /\ UNCHANGED <<job, startResp, stopReq, arch, wg, waiter, archive, reader,
                   cache, now, probe, tag, jobtag, tagCall, uiDefaults,
                   configuration, uiCache, uiCall>>

\* uiDefaults[key] = val, and the deferred Unlock.  Every loop over
\* uiDefaults in progress has raced with this write.
UpdateConfig_Write(u) ==
    /\ updCall[u].pc = "writing"
    /\ uiDefaults' = [k \in DOMAIN uiDefaults \cup {updCall[u].key} |->
                        IF k = updCall[u].key
                        THEN Unmarshal(updCall[u].value).val
                        ELSE uiDefaults[k]]
    /\ uiCall' = [c \in UiCallers |->
                    IF uiCall[c].reading
                    THEN [uiCall[c] EXCEPT !.raced = TRUE]
                    ELSE uiCall[c]]
    /\ lock' = [lock EXCEPT !.writer = 0]
    /\ updCall' = [updCall EXCEPT ![u].pc = "done"]
    /\ UNCHANGED <<job, startResp, stopReq, arch, wg, waiter, archive, reader,
                   cache, now, probe, tag, jobtag, tagCall, configuration,
                   uiCache>>

\* db.Exec of the REPLACE; the value is stored as it came.  A failing
\* statement is returned as the error.
UpdateConfig_Exec(u) ==
    /\ updCall[u].pc = "deleted"
    /\ \E ok \in BOOLEAN :
          IF ok
          THEN /\ configuration' = ReplaceInto(configuration, updCall[u].user,
                                               updCall[u].key, updCall[u].value)
               /\ updCall' = [updCall EXCEPT ![u].pc = "done"]
          ELSE /\ updCall' = [updCall EXCEPT ![u].pc = "done", ![u].err = TRUE]
               /\ UNCHANGED configuration
    /\ UNCHANGED <<job, startResp, stopReq, arch, wg, waiter, archive, reader,
                   cache, now, probe, tag, jobtag, tagCall, uiDefaults,
                   uiCache, uiCall, lock>>

\* ---------------------------------------------------------- direct calls
\* --------------------------------------------------------------- InitDB
\* A job directory's meta.json, as far as loadJob is concerned: whether it
\* opens, decodes, passes the sanity checks and inserts, and the tags it
\* lists.
NoMeta == [fault |-> "open", tags |-> <<>>]

ImportTagLists ==
    {<<>>,
     <<[Name |-> "sw", Type |-> "app"]>>,
     <<[Name |-> "sw", Type |-> "app"], [Name |-> "sw", Type |-> "app"]>>,
     <<[Name |-> "sw", Type |-> "app"], [Name |-> "sw", Type |-> "lib"]>>}

ImportMetas ==
    {[fault |-> "none", tags |-> t] : t \in ImportTagLists}
        \cup {[fault |-> f, tags |-> <<>>] :
                 f \in {"open", "decode", "sanity", "insert"}}

\* A directory at the third level of the archive: in the legacy layout it
\* holds meta.json itself, otherwise one directory per start time.
LegacyDir(meta) ==
    [meta |-> meta,
     entries |-> <<[kind |-> "file", name |-> "data.json", meta |-> NoMeta],
                   [kind |-> "file", name |-> "meta.json", meta |-> NoMeta]>>]

StartTimeDir(meta) ==
    [meta |-> NoMeta,
     entries |-> <<[kind |-> "dir", name |-> "1608923076", meta |-> meta]>>]

ImportDirs ==
    {LegacyDir(m) : m \in ImportMetas} \cup {StartTimeDir(m) : m \in ImportMetas}

\* The job directories handleDirectory is called on for one third-level
\* directory, in the order of its entries, each as its layout and meta.json.
RECURSIVE JobDirsOf(_, _)
JobDirsOf(dir, n) ==
    IF n > Len(dir.entries) THEN <<>>
    ELSE LET e == dir.entries[n]
             here == IF e.kind = "file" /\ e.name = "meta.json"
                     THEN <<[layout |-> "legacy", meta |-> dir.meta]>>
                     ELSE IF e.kind = "dir"
                     THEN <<[layout |-> "starttime", meta |-> e.meta]>>
                     ELSE <<>>
         IN  here \o JobDirsOf(dir, n + 1)

RECURSIVE AllJobDirs(_)
AllJobDirs(archiveDirs) ==
    IF archiveDirs = <<>> THEN <<>>
    ELSE JobDirsOf(Head(archiveDirs), 1) \o AllJobDirs(Tail(archiveDirs))

\* The database and the bookkeeping of one InitDB run: the tables as the
\* open transaction sees them, the tables as last committed, the tag cache,
\* the counter i, and per job row and tag row the call that inserted it.
EmptyImport ==
    [job |-> <<>>, tag |-> <<>>, jobtag |-> {},
     durable |-> [job |-> <<>>, tag |-> <<>>, jobtag |-> {}],
     tags |-> [k \in {} |-> 0], i |-> 0,
     jobFrom |-> <<>>, tagFrom |-> <<>>, failed |-> {}, calls |-> 0]

\* tx.Commit()
Commit(st) ==
    [st EXCEPT !.durable = [job |-> st.job, tag |-> st.tag,
                            jobtag |-> st.jobtag]]

\* loadJob's loop over the job's tags, from tag n on: the tag row is inserted
\* unless tags has its key; then the jobtag row is inserted.  The first
\* failing INSERT ends the loop with an error, nothing is undone.
RECURSIVE LoadTags(_, _, _, _)
LoadTags(st, id, tagList, n) ==
    IF n > Len(tagList) THEN [st |-> st, err |-> FALSE]
    ELSE LET t == tagList[n]
             tagstr == t.Name \o ":" \o t.Type
             known == tagstr \in DOMAIN st.tags
             dup == \E k \in DOMAIN st.tag : /\ st.tag[k].tag_type = t.Type
                                             /\ st.tag[k].tag_name = t.Name
             tagId == IF known THEN st.tags[tagstr] ELSE Len(st.tag) + 1
             st1 == IF known THEN st
                    ELSE [st EXCEPT
                            !.tag = Append(@, [id |-> tagId,
                                               tag_type |-> t.Type,
                                               tag_name |-> t.Name]),
                            !.tagFrom = Append(@, st.calls),
                            !.tags = [k \in DOMAIN @ \cup {tagstr} |->
                                        IF k = tagstr THEN tagId ELSE @[k]]]
         IN  IF ~known /\ dup THEN [st |-> st, err |-> TRUE]
             ELSE IF <<id, tagId>> \in st1.jobtag
             THEN [st |-> st1, err |-> TRUE]
             ELSE LoadTags([st1 EXCEPT !.jobtag = @ \cup {<<id, tagId>>}],
                           id, tagList, n + 1)

\* loadJob: open and decode meta.json, sanity checks, INSERT of the job row
\* with monitoring status archiving-successful, then its tags.
LoadJob(st, meta) ==
    IF meta.fault # "none" THEN [st |-> st, err |-> TRUE]
    ELSE LET id == Len(st.job) + 1
             row == [NoJob EXCEPT !.id = id, !.job_id = 123,
                         !.user = "testuser", !.cluster = "testcluster",
                         !.duration = 1, !.job_state = "completed",
                         !.monitoring_status =
                             MonitoringStatusArchivingSuccessful]
         IN  LoadTags([st EXCEPT !.job = Append(@, row),
                                 !.jobFrom = Append(@, st.calls)],
                      id, meta.tags, 1)

\* Inserts per transaction.
BatchSize == 100

\* handleDirectory: every BatchSize jobs the transaction is committed and a
\* new one begun; the job is loaded; i counts the jobs loaded without error.
\* The error is logged by the caller and the import goes on.
HandleDirectory(st, meta) ==
    LET st1 == [(IF st.i % BatchSize = 0 THEN Commit(st) ELSE st)
                   EXCEPT !.calls = @ + 1]
        res == LoadJob(st1, meta)
    IN  IF res.err THEN [res.st EXCEPT !.failed = @ \cup {st1.calls}]
        ELSE [res.st EXCEPT !.i = @ + 1]

RECURSIVE HandleAll(_, _)
HandleAll(st, jobDirs) ==
    IF jobDirs = <<>> THEN st
    ELSE HandleAll(HandleDirectory(st, Head(jobDirs).meta), Tail(jobDirs))

\* InitDB: the tables are created anew, every job directory is handled, the
\* last transaction is committed and the count i is reported.  "jobDirs"
\* lists the directories handled, in order.
InitDB(archiveDirs) ==
    LET jobDirs == AllJobDirs(archiveDirs)
        st == Commit(HandleAll(EmptyImport, jobDirs))
    IN  [err |-> FALSE, count |-> st.i, jobDirs |-> jobDirs,
         job |-> st.durable.job, tag |-> st.durable.tag,
         jobtag |-> st.durable.jobtag, tags |-> st.tags,
         jobFrom |-> st.jobFrom, tagFrom |-> st.tagFrom,
         failed |-> st.failed]

\* The functions of the repository and of the read path, called directly
\* on the inputs below; probe holds the last call and what it returned.
NoCall == [op |-> "none"]

\* The jobs LoadData is called with: every state and monitoring status, on a
\* cluster with and on one without a registered metric data repository.
CallJobs ==
    {[NoJob EXCEPT !.id = 1, !.job_id = 123, !.user = "testuser",
                   !.cluster = cl,
                   !.job_state = st, !.monitoring_status = ms,
                   !.duration = IF st = JobStateRunning THEN 0
                                ELSE MaxStartTime + 1] :
        cl \in Clusters \cup {"othercluster"},
        st \in {JobStateRunning} \cup TerminalStates,
        ms \in {MonitoringStatusDisabled, MonitoringStatusRunningOrArchiving,
                MonitoringStatusArchivingFailed,
                MonitoringStatusArchivingSuccessful}}

CallMetricArgs == {Nil, <<"mem_used">>, <<"load_one", "flops_any">>}
CallScopeArgs == {Nil, <<"node">>, <<"core">>}

\* The archive store: without and with an entry for the job.
CallStores ==
    {[i \in 1..MaxJobs |-> NoData],
     [i \in 1..MaxJobs |-> IF i = 1 THEN AdapterData(1) ELSE NoData]}

\* The job tables the repository functions are called on: two running jobs;
\* the first one stopped; the first one stopped and archived with every
\* aggregate column set.
StatNames == {"flops_any", "mem_used", "mem_bw", "load", "net_bw", "file_bw"}
CallStatNames == StatNames \cup {"cpu_load"}

StatIndex(m) ==
    CASE m = "flops_any" -> 1 [] m = "mem_used" -> 2 [] m = "mem_bw" -> 3
      [] m = "load" -> 4 [] m = "net_bw" -> 5 [] m = "file_bw" -> 6
      [] OTHER -> 7

CallStats(names, base) ==
    [m \in names |-> [Avg |-> base + StatIndex(m),
                      Max |-> base + 10 + StatIndex(m)]]

CallTables ==
    LET meta(t) == [job_id |-> 123, user |-> "testuser",
                    cluster |-> "testcluster",
                    start_time |-> t, duration |-> 0,
                    job_state |-> JobStateRunning,
                    monitoring_status |-> MonitoringStatusRunningOrArchiving]
        started == Start(Start(<<>>, meta(0)), meta(MaxStartTime))
        stopped == Stop(started, 1, MaxStartTime + 1, "completed",
                        MonitoringStatusRunningOrArchiving)
    IN  {started, stopped,
         Archive(stopped, 1, MonitoringStatusArchivingSuccessful,
                 CallStats(StatNames, 20))}

\* Row ids: the two present and one that matches no row.
CallIds == 1..3

Call_Archive ==
    /\ probe = NoCall
    /\ \E tbl \in CallTables, jobId \in CallIds,
          monitoringStatus \in {MonitoringStatusArchivingFailed,
                                MonitoringStatusArchivingSuccessful},
          names \in SUBSET CallStatNames :
          LET metricStats == CallStats(names, 40)
          IN  probe' = [op |-> "Archive", tbl |-> tbl, jobId |-> jobId,
                        monitoringStatus |-> monitoringStatus,
                        metricStats |-> metricStats,
                        out |-> [tbl |-> Archive(tbl, jobId, monitoringStatus,
                                                 metricStats),
                                 err |-> ArchiveErr(tbl, jobId)]]
    /\ UNCHANGED <<job, startResp, stopReq, arch, wg, waiter, archive, reader,
                   cache, now, tag, jobtag, tagCall, cfgVars>>

Call_Stop ==
    /\ probe = NoCall
    /\ \E tbl \in CallTables, jobId \in CallIds, state \in TerminalStates,
          duration \in {1, MaxStartTime + 1},
          monitoringStatus \in {MonitoringStatusDisabled,
                                MonitoringStatusRunningOrArchiving} :
          probe' = [op |-> "Stop", tbl |-> tbl, jobId |-> jobId,
                    duration |-> duration, state |-> state,
                    monitoringStatus |-> monitoringStatus,
                    out |-> [tbl |-> Stop(tbl, jobId, duration, state,
                                          monitoringStatus),
                             err |-> StopErr(tbl, jobId)]]
    /\ UNCHANGED <<job, startResp, stopReq, arch, wg, waiter, archive, reader,
                   cache, now, tag, jobtag, tagCall, cfgVars>>

\* The job tables FindJobOrUser searches: up to two jobs, each with one of
\* two job ids and one of two owners (one owner's name is a number).
SearchUsers == {"testuser", "456"}
SearchTerms == {"123", "+123", "456", "testuser", "nobody", ""}

SearchTables ==
    LET metas == {[job_id |-> n, user |-> u, cluster |-> "testcluster",
                   start_time |-> 0, duration |-> 0,
                   job_state |-> JobStateRunning,
                   monitoring_status |-> MonitoringStatusRunningOrArchiving] :
                     n \in {123, 456}, u \in SearchUsers}
    IN  {<<>>} \cup {Start(<<>>, m) : m \in metas}
               \cup {Start(Start(<<>>, m1), m2) : m1 \in metas, m2 \in metas}

\* The callers: none, and users with and without the admin role, among them
\* one who owns no job.
SearchCallers ==
    {NilUser} \cup {[nil |-> FALSE, Username |-> u, admin |-> a] :
                       u \in SearchUsers \cup {"nobody"}, a \in BOOLEAN}

Call_FindJobOrUser ==
    /\ probe = NoCall
    /\ \E tbl \in SearchTables, user \in SearchCallers,
          searchterm \in SearchTerms :
          \E out \in FindJobOrUser(tbl, user, searchterm) :
              probe' = [op |-> "FindJobOrUser", tbl |-> tbl, user |-> user,
                        searchterm |-> searchterm, out |-> out]
    /\ UNCHANGED <<job, startResp, stopReq, arch, wg, waiter, archive, reader,
                   cache, now, tag, jobtag, tagCall, cfgVars>>

\* The metric lists and the columns LoadAverages is called with: one column
\* per metric, empty or already holding a value.
AverageMetricArgs ==
    {<<"load_one">>, <<"mem_used", "flops_any">>, <<"net_bw", "load_one">>}

AverageColumns(n) == [1..n -> {<<>>, <<Float(9)>>}]

Call_LoadAverages ==
    /\ probe = NoCall
    /\ \E j \in CallJobs, metrics \in AverageMetricArgs,
          archiveUsed \in BOOLEAN, outcome \in StatsOutcomes,
          store \in CallStores :
          \E data \in AverageColumns(Len(metrics)) :
              probe' = [op |-> "LoadAverages", job |-> j, metrics |-> metrics,
                        data |-> data, archiveUsed |-> archiveUsed,
                        outcome |-> outcome, store |-> store,
                        out |-> LoadAverages(j, metrics, data, archiveUsed,
                                             outcome, store)]
    /\ UNCHANGED <<job, startResp, stopReq, arch, wg, waiter, archive, reader,
                   cache, now, tag, jobtag, tagCall, cfgVars>>

Call_LoadNodeData ==
    /\ probe = NoCall
    /\ \E cluster \in Clusters \cup {"othercluster"},
          metrics \in CallMetricArgs, res \in NodeDataOutcomes :
          probe' = [op |-> "LoadNodeData", cluster |-> cluster,
                    metrics |-> metrics, res |-> res,
                    out |-> LoadNodeData(cluster, metrics, res)]
    /\ UNCHANGED <<job, startResp, stopReq, arch, wg, waiter, archive, reader,
                   cache, now, tag, jobtag, tagCall, cfgVars>>

\* The archives InitDB is called on: up to MaxDirs third-level directories.
RECURSIVE ArchivesOfLen(_)
ArchivesOfLen(n) ==
    IF n = 0 THEN {<<>>}
    ELSE {Append(a, d) : a \in ArchivesOfLen(n - 1), d \in ImportDirs}

ImportArchives == UNION {ArchivesOfLen(n) : n \in 0..MaxDirs}

Call_InitDB ==
    /\ probe = NoCall
    /\ \E archiveDirs \in ImportArchives :
          probe' = [op |-> "InitDB", archive |-> archiveDirs,
                    out |-> InitDB(archiveDirs)]
    /\ UNCHANGED <<job, startResp, stopReq, arch, wg, waiter, archive, reader,
                   cache, now, tag, jobtag, tagCall, cfgVars>>

Call_LoadData ==
    /\ probe = NoCall
    /\ \E j \in CallJobs, metrics \in CallMetricArgs, scopes \in CallScopeArgs,
          archiveUsed \in BOOLEAN, outcome \in AdapterOutcomes,
          store \in CallStores :
          probe' = [op |-> "LoadData", job |-> j, metrics |-> metrics,
                    scopes |-> scopes, archiveUsed |-> archiveUsed,
                    outcome |-> outcome, store |-> store,
                    out |-> LoadDataCompute(j, metrics, scopes, archiveUsed,
                                            outcome, store)]
    /\ UNCHANGED <<job, startResp, stopReq, arch, wg, waiter, archive, reader,
                   cache, now, tag, jobtag, tagCall, cfgVars>>

\* ----------------------------------------------------------------- tags
TagTypes == {"testtype"}
TagNames == {"bandwidth", "load"}

\* A faulty variant of TagId: the tag is never found.
TagId_NeverFinds(tbl, tagType, tagName) == {}

\* TagId: the ids of the rows with this type and name (QueryRow yields one
\* of them); none means exists = false.
TagId(tbl, tagType, tagName) ==
    {tbl[i].id : i \in {k \in DOMAIN tbl : /\ tbl[k].tag_type = tagType
                                           /\ tbl[k].tag_name = tagName}}

\* A faulty variant of CreateTag: a tag table without UNIQUE (tag_type,
\* tag_name).
CreateTag_NoUnique(tbl, tagType, tagName) ==
    [tbl |-> Append(tbl, [id |-> Len(tbl) + 1, tag_type |-> tagType,
                          tag_name |-> tagName]),
     tagId |-> Len(tbl) + 1, err |-> FALSE]

\* CreateTag: INSERT INTO tag; the row gets the next id.  UNIQUE (tag_type,
\* tag_name) makes the INSERT of a second such row fail.
CreateTag(tbl, tagType, tagName) ==
    IF \E i \in DOMAIN tbl : /\ tbl[i].tag_type = tagType
                             /\ tbl[i].tag_name = tagName
    THEN [tbl |-> tbl, tagId |-> 0, err |-> TRUE]
    ELSE [tbl |-> Append(tbl, [id |-> Len(tbl) + 1, tag_type |-> tagType,
                               tag_name |-> tagName]),
          tagId |-> Len(tbl) + 1, err |-> FALSE]

\* AddTag: INSERT INTO jobtag; PRIMARY KEY (job_id, tag_id) makes the INSERT
\* of a pair already present fail.
AddTag(tbl, jobId, tagId) ==
    IF <<jobId, tagId>> \in tbl
    THEN [tbl |-> tbl, err |-> TRUE]
    ELSE [tbl |-> tbl \cup {<<jobId, tagId>>}, err |-> FALSE]

IdleTagCall ==
    [pc |-> "idle", jobId |-> 0, tagType |-> "", tagName |-> "", tagId |-> 0,
     err |-> FALSE, after |-> {}]

\* AddTagOrCreate, first statement: the call arrives and looks the tag up.
\* (Callers are numbered in the order in which they arrive.)
AddTagOrCreate_TagId(c) ==
    /\ tagCall[c].pc = "idle"
    /\ \A d \in TagCallers : d < c => tagCall[d].pc # "idle"
    /\ \E jobId \in DOMAIN job, tagType \in TagTypes, tagName \in TagNames :
          LET found == TagId(tag, tagType, tagName)
              call == [IdleTagCall EXCEPT
                          !.jobId = jobId, !.tagType = tagType,
                          !.tagName = tagName,
                          !.after = {d \in TagCallers :
                                        tagCall[d].pc = "done"}]
          IN  IF found = {}
              THEN tagCall' = [tagCall EXCEPT ![c] =
                                  [call EXCEPT !.pc = "create"]]
              ELSE \E id \in found :
                      tagCall' = [tagCall EXCEPT ![c] =
                                  [call EXCEPT !.pc = "add", !.tagId = id]]
    /\ UNCHANGED <<job, startResp, stopReq, arch, wg, waiter, archive, reader,
                   cache, now, probe, tag, jobtag, cfgVars>>

\* The tag did not exist: CreateTag; its error ends the call with id 0.
AddTagOrCreate_CreateTag(c) ==
    /\ tagCall[c].pc = "create"
    /\ LET res == CreateTag(tag, tagCall[c].tagType, tagCall[c].tagName)
       IN  /\ tag' = res.tbl
           /\ tagCall' = [tagCall EXCEPT ![c] =
                            IF res.err
                            THEN [@ EXCEPT !.pc = "done", !.tagId = 0,
                                           !.err = TRUE]
                            ELSE [@ EXCEPT !.pc = "add",
                                           !.tagId = res.tagId]]
    /\ UNCHANGED <<job, startResp, stopReq, arch, wg, waiter, archive, reader,
                   cache, now, probe, jobtag, cfgVars>>

\* return tagId, r.AddTag(jobId, tagId)
AddTagOrCreate_AddTag(c) ==
    /\ tagCall[c].pc = "add"
    /\ LET res == AddTag(jobtag, tagCall[c].jobId, tagCall[c].tagId)
       IN  /\ jobtag' = res.tbl
           /\ tagCall' = [tagCall EXCEPT ![c] =
                            [@ EXCEPT !.pc = "done", !.err = res.err]]
    /\ UNCHANGED <<job, startResp, stopReq, arch, wg, waiter, archive, reader,
                   cache, now, probe, tag, cfgVars>>

\* ----------------------------------------------------------------- init
Init ==
    /\ job = <<>>
    /\ startResp = [status |-> 0, dbid |-> 0, job_id |-> 0, cluster |-> "",
                    start_time |-> 0]
    /\ stopReq = [r \in StopReqs |-> IdleStop]
    /\ arch = [r \in StopReqs |-> NoTask]
    /\ wg = 0
    /\ waiter = [pc |-> "idle", after |-> {}]
    /\ archive = [i \in 1..MaxJobs |-> NoData]
    /\ reader = [r \in Readers |-> IdleReader]
    /\ cache = [k \in {} |-> Computing]
    /\ now = 0
    /\ probe = NoCall
    /\ tag = <<>>
    /\ jobtag = {}
    /\ tagCall = [c \in TagCallers |-> IdleTagCall]
    /\ uiDefaults = [k \in ConfKeys |-> 10]
    /\ configuration = [u \in {} |-> NoRows]
    /\ uiCache = [u \in {} |-> Computing]
    /\ uiCall = [c \in UiCallers |-> IdleUiCall]
    /\ lock = Unlocked
    /\ updCall = [u \in Updaters |-> IdleUpdate]

Next ==
    \/ StartJob
    \/ \E r \in StopReqs : StopJob_Find(r)
    \/ \E r \in StopReqs : StopJob_Update(r)
    \/ \E r \in StopReqs : StopJob_Trigger(r)
    \/ \E r \in StopReqs : StopJob_Respond(r)
    \/ \E r \in StopReqs : ArchiveJob_Load(r)
    \/ \E r \in StopReqs : ArchiveJob_Write(r)
    \/ \E r \in StopReqs : ArchiveJob_Archive(r)
    \/ \E r \in StopReqs : ArchiveJob_Fail(r)
    \/ \E r \in StopReqs : ArchiveJob_Done(r)
    \/ Wait_Call
    \/ Wait_Return

Spec == Init /\ [][Next]_vars

\* One job, one stop request and the callers of LoadData.
NextData ==
    \/ StartJobWith(1, {0})
    \/ StopJob_Find(1)
    \/ StopJob_Update(1)
    \/ StopJob_Trigger(1)
    \/ StopJob_Respond(1)
    \/ ArchiveJob_Load(1)
    \/ ArchiveJob_Write(1)
    \/ ArchiveJob_Archive(1)
    \/ ArchiveJob_Fail(1)
    \/ ArchiveJob_Done(1)
    \/ \E r \in Readers : LoadData_Call(r)
    \/ \E r \in Readers : LoadData_Compute(r)
    \/ Cache_Expire

SpecData == Init /\ [][NextData]_vars

\* One job that is started and stopped, the callers of LoadData and the
\* clock.
NextTTL ==
    \/ StartJobWith(1, {0})
    \/ StopJob_Find(1)
    \/ StopJob_Update(1)
    \/ \E r \in Readers : LoadData_Call(r)
    \/ \E r \in Readers : LoadData_Compute(r)
    \/ Tick

SpecTTL == Init /\ [][NextTTL]_vars

\* The job tables one job leaves behind: running; stopped with its archiving
\* still to come; stopped with a failed archiving; stopped and archived.
JobSnapshots ==
    LET none == [i \in 1..MaxJobs |-> NoData]
        running == Start(<<>>,
                       [job_id |-> 123, user |-> "testuser",
                        cluster |-> "testcluster",
                        start_time |-> 0, duration |-> 0,
                        job_state |-> JobStateRunning,
                        monitoring_status |-> MonitoringStatusRunningOrArchiving])
        stopped(st) == Stop(running, 1, MaxStartTime + 1, st,
                            MonitoringStatusRunningOrArchiving)
    IN  {[job |-> running, archive |-> none]}
        \cup {[job |-> stopped(st), archive |-> none] : st \in TerminalStates}
        \cup {[job |-> UpdateMonitoringStatus(stopped(st), 1,
                            MonitoringStatusArchivingFailed),
               archive |-> none] : st \in TerminalStates}
        \cup {[job |-> Archive(stopped(st), 1,
                            MonitoringStatusArchivingSuccessful,
                            Statistics(AdapterData(1))),
               archive |-> [none EXCEPT ![1] = AdapterData(1)]] :
                  st \in TerminalStates}

\* The configuration tables: empty, or one row of the user.
ConfigSnapshots ==
    {[u \in {} |-> NoRows]}
    \cup {[u \in Users |-> [k \in ConfKeys |-> raw]] : raw \in RawVals}

\* No request in flight, one job in the table, and callers of LoadData and
\* of GetUIConfig.
InitErr ==
    /\ \E snap \in JobSnapshots : job = snap.job /\ archive = snap.archive
    /\ configuration \in ConfigSnapshots
    /\ startResp = [status |-> 0, dbid |-> 0, job_id |-> 0, cluster |-> "",
                    start_time |-> 0]
    /\ stopReq = [r \in StopReqs |-> IdleStop]
    /\ arch = [r \in StopReqs |-> NoTask]
    /\ wg = 0
    /\ waiter = [pc |-> "idle", after |-> {}]
    /\ reader = [r \in Readers |-> IdleReader]
    /\ cache = [k \in {} |-> Computing]
    /\ now = 0
    /\ probe = NoCall
    /\ tag = <<>>
    /\ jobtag = {}
    /\ tagCall = [c \in TagCallers |-> IdleTagCall]
    /\ uiDefaults = [k \in ConfKeys |-> 10]
    /\ uiCache = [u \in {} |-> Computing]
    /\ uiCall = [c \in UiCallers |-> IdleUiCall]
    /\ lock = Unlocked
    /\ updCall = [u \in Updaters |-> IdleUpdate]

NextErr ==
    \/ \E r \in Readers : LoadData_Call(r)
    \/ \E r \in Readers : LoadData_Compute(r)
    \/ \E c \in UiCallers : GetUIConfig_Call(c)
    \/ \E c \in UiCallers : GetUIConfig_CopyDefaults(c)
    \/ \E c \in UiCallers : GetUIConfig_Compute(c)

SpecErr == InitErr /\ [][NextErr]_vars

\* Tagging: callers of AddTagOrCreate, in every interleaving of their
\* statements, on a job table with MaxJobs running jobs.
InitTags ==
    /\ job = [i \in 1..MaxJobs |->
                [NoJob EXCEPT !.id = i, !.job_id = 123, !.user = "testuser",
                              !.cluster = "testcluster",
                              !.start_time = (i - 1) * GuardWindow,
                              !.job_state = JobStateRunning,
                              !.monitoring_status =
                                  MonitoringStatusRunningOrArchiving]]
    /\ startResp = [status |-> 0, dbid |-> 0, job_id |-> 0, cluster |-> "",
                    start_time |-> 0]
    /\ stopReq = [r \in StopReqs |-> IdleStop]
    /\ arch = [r \in StopReqs |-> NoTask]
    /\ wg = 0
    /\ waiter = [pc |-> "idle", after |-> {}]
    /\ archive = [i \in 1..MaxJobs |-> NoData]
    /\ reader = [r \in Readers |-> IdleReader]
    /\ cache = [k \in {} |-> Computing]
    /\ now = 0
    /\ probe = NoCall
    /\ tag = <<>>
    /\ jobtag = {}
    /\ tagCall = [c \in TagCallers |-> IdleTagCall]
    /\ uiDefaults = [k \in ConfKeys |-> 10]
    /\ configuration = [u \in {} |-> NoRows]
    /\ uiCache = [u \in {} |-> Computing]
    /\ uiCall = [c \in UiCallers |-> IdleUiCall]
    /\ lock = Unlocked
    /\ updCall = [u \in Updaters |-> IdleUpdate]

NextTags ==
    \/ \E c \in TagCallers : AddTagOrCreate_TagId(c)
    \/ \E c \in TagCallers : AddTagOrCreate_CreateTag(c)
    \/ \E c \in TagCallers : AddTagOrCreate_AddTag(c)

SpecTags == InitTags /\ [][NextTags]_vars

\* The UI configuration: callers of GetUIConfig and of UpdateConfig, with
\* and without a user, in every interleaving of their statements.
NextConfig ==
    \/ \E c \in UiCallers : GetUIConfig_Call(c)
    \/ \E c \in UiCallers : GetUIConfig_CopyDefaults(c)
    \/ \E c \in UiCallers : GetUIConfig_Compute(c)
    \/ \E c \in UiCallers : GetUIConfig_RLock(c)
    \/ \E c \in UiCallers : GetUIConfig_RUnlock(c)
    \/ \E u \in Updaters : UpdateConfig_Call(u)
    \/ \E u \in Updaters : UpdateConfig_Lock(u)
    \/ \E u \in Updaters : UpdateConfig_Write(u)
    \/ \E u \in Updaters : UpdateConfig_Exec(u)

SpecConfig == InitErr /\ [][NextConfig]_vars

\* One direct call.
NextCalls ==
    \/ Call_LoadData
    \/ Call_Archive
    \/ Call_Stop
    \/ Call_FindJobOrUser
    \/ Call_LoadAverages
    \/ Call_LoadNodeData
    \/ Call_InitDB

SpecCalls == Init /\ [][NextCalls]_vars

\* Fairness: a handler that has started runs to its response, an archiving
\* task that is registered runs to its deregistration, and a blocked Wait()
\* returns once the counter is zero.
FairSpec ==
    /\ Spec
    /\ \A r \in StopReqs :
        /\ WF_vars(StopJob_Update(r))
        /\ WF_vars(StopJob_Trigger(r))
        /\ WF_vars(StopJob_Respond(r))
        /\ WF_vars(ArchiveJob_Load(r))
        /\ WF_vars(ArchiveJob_Write(r))
        /\ WF_vars(ArchiveJob_Archive(r))
        /\ WF_vars(ArchiveJob_Fail(r))
        /\ WF_vars(ArchiveJob_Done(r))
    /\ WF_vars(Wait_Return)

\* ================================================================ claims
SameJob(row, jobId, cluster) == row.job_id = jobId /\ row.cluster = cluster

Close(t1, t2) == Abs(t1 - t2) < GuardWindow

InFlight == {"registered", "loaded", "failed", "written", "archived", "marked"}
Finished == {"done", "done_failed"}

\* The rows of the job table with the same (job id, cluster) as the last
\* start request.
Rivals == {i \in DOMAIN job :
              SameJob(job[i], startResp'.job_id, startResp'.cluster)}

\* C1: a start request for a (job id, cluster) that already has a job whose
\* start time lies within the guard window of the requested one is answered
\* 422 and inserts no row; a start request for a (job id, cluster) whose
\* existing jobs all lie far from the requested start time is answered 201
\* and appends one running row whose surrogate id differs from every
\* existing one.
C1_DuplicateStartGuard ==
    [][startResp' # startResp =>
        /\ (\E i \in Rivals : Close(startResp'.start_time, job[i].start_time))
              => /\ startResp'.status = StatusUnprocessableEntity
                 /\ job' = job
        /\ (/\ Rivals # {}
            /\ \A i \in Rivals : ~Close(startResp'.start_time, job[i].start_time))
              => /\ startResp'.status = StatusCreated
                 /\ Len(job') = Len(job) + 1
                 /\ \A i \in DOMAIN job : job'[i] = job[i]
                 /\ \A i \in DOMAIN job : job[i].id # startResp'.dbid
                 /\ job'[Len(job')].id = startResp'.dbid
                 /\ job'[Len(job')].start_time = startResp'.start_time
                 /\ job'[Len(job')].job_state = JobStateRunning]_vars

\* Two distinct rows for one (job id, cluster) exist and a third start, too
\* close to one of them, has just been refused.
C1_Witness ==
    /\ Len(job) = 2
    /\ SameJob(job[2], job[1].job_id, job[1].cluster)
    /\ job[1].id # job[2].id
    /\ startResp.status = StatusUnprocessableEntity
    /\ \E i \in DOMAIN job : Close(startResp.start_time, job[i].start_time)

\* C2 (as stated): a start request is rejected if and only if some existing
\* job with the same (job id, cluster) is still running and has a start time
\* within the guard window.
C2_GuardOnlyUnfinished ==
    [][startResp' # startResp =>
        (startResp'.status = StatusUnprocessableEntity
            <=> \E i \in Rivals :
                    /\ job[i].job_state = JobStateRunning
                    /\ Close(startResp'.start_time, job[i].start_time))]_vars

\* C2 (amended): a start request is rejected if and only if some existing job
\* with the same (job id, cluster), running or already stopped, has a start
\* time within the guard window; otherwise it is accepted.
C2_GuardAnyState ==
    [][startResp' # startResp =>
        /\ startResp'.status \in {StatusUnprocessableEntity, StatusCreated}
        /\ startResp'.status = StatusUnprocessableEntity
            <=> \E i \in Rivals :
                    Close(startResp'.start_time, job[i].start_time)]_vars

\* A start has been refused and the only job it could collide with is one
\* that has been stopped.
C2_Witness ==
    /\ startResp.status = StatusUnprocessableEntity
    /\ Len(job) = 1
    /\ job[1].job_state \in TerminalStates
    /\ Close(startResp.start_time, job[1].start_time)
    /\ \A r \in StopReqs : stopReq[r].pc \in {"idle", "done"}

\* C3: after a stop request has been accepted with terminal state S and stop
\* time T_stop, every read of the job by surrogate id and every Find of it
\* shows state S and duration T_stop - T_start.
C3_StopStateAndDuration ==
    \A r \in StopReqs : Accepted(r) =>
        /\ \A j \in FindById(job, stopReq[r].job.id) :
              /\ j.job_state = stopReq[r].state
              /\ j.duration = stopReq[r].stop_time - stopReq[r].job.start_time
        /\ \A j \in Find(job, stopReq[r].job.job_id, stopReq[r].job.cluster,
                         stopReq[r].job.start_time) :
              j.id = stopReq[r].job.id =>
                  /\ j.job_state = stopReq[r].state
                  /\ j.duration = stopReq[r].stop_time - stopReq[r].job.start_time

\* C4: once a job has been stopped with state "failed" and a Wait() begun
\* after that stop's response has returned, Find(jobId, cluster) shows the job
\* in state "completed".
C4_FailedReadsCompleted ==
    \A r \in StopReqs :
        (/\ Accepted(r)
         /\ stopReq[r].state = "failed"
         /\ waiter.pc = "returned"
         /\ r \in waiter.after)
        => \A j \in Find(job, stopReq[r].job.job_id, stopReq[r].job.cluster, NoTime) :
               j.id = stopReq[r].job.id => j.job_state = "completed"

\* C5: for any one job at most one stop request is accepted with 200 and at
\* most one archiving task is started; a stop request answered 404 leaves the
\* job table as it was.
C5_AtMostOneStop ==
    /\ [](\A i \in DOMAIN job :
            /\ Cardinality({r \in StopReqs :
                    stopReq[r].pc \in {"updated", "triggered", "done"}
                    /\ stopReq[r].job.id = i}) <= 1
            /\ Cardinality({r \in StopReqs : arch[r].dbid = i}) <= 1)
    /\ [][\A r \in StopReqs :
            (stopReq[r].status = 0 /\ stopReq'[r].status = StatusNotFound)
                => job' = job]_vars

C7_ArchivingLiveness ==
    /\ [][\A r \in StopReqs :
            (arch[r].pc \in InFlight /\ arch'[r].pc \in Finished)
                => job'[arch[r].dbid].monitoring_status \in
                       {MonitoringStatusArchivingFailed,
                        MonitoringStatusArchivingSuccessful}]_vars
    /\ \A r \in StopReqs :
          (arch[r].pc \in InFlight) ~> (arch[r].pc \in Finished)
    /\ \A r \in StopReqs :
          Accepted(r) ~> (\E i \in DOMAIN job :
                             /\ i = stopReq[r].job.id
                             /\ job[i].monitoring_status \in
                                   {MonitoringStatusArchivingFailed,
                                    MonitoringStatusArchivingSuccessful})
    /\ (waiter.pc = "waiting") ~> (waiter.pc = "returned")

\* C9: what an archiving task sees at its first read of the job is the state
\* and duration written by a stop request whose update has completed: never
\* state running, never the duration 0 of a running job.
C9_StopVisibleToArchiving ==
    \A r \in StopReqs : arch[r].pc \in {"loaded", "failed"} =>
        /\ stopReq[r].pc \in {"triggered", "done"}
        /\ arch[r].obs_state # JobStateRunning
        /\ arch[r].obs_duration # 0
        /\ \E q \in StopReqs :
              /\ stopReq[q].pc \in {"updated", "triggered", "done"}
              /\ stopReq[q].job.id = arch[r].dbid
              /\ arch[r].obs_state = stopReq[q].state
              /\ arch[r].obs_duration =
                    stopReq[q].stop_time - stopReq[q].job.start_time

\* An archiving task has read its job and pulled the data.
C9_Witness ==
    \E r \in StopReqs : arch[r].pc = "loaded" /\ arch[r].obs_state \in TerminalStates

\* The metrics and scopes a LoadData call asks for (a nil list asks for every
\* configured metric, respectively for the node scope).
AskedMetrics(r) ==
    IF reader[r].metrics = Nil THEN Range(MetricConfig) ELSE Range(reader[r].metrics)
AskedScopes(r) ==
    IF reader[r].scopes = Nil THEN {"node"} ELSE Range(reader[r].scopes)

\* C8 (for a job whose archiving succeeded): a LoadData call for a stopped
\* job, read again after all archivings have drained, returns no error and,
\* for every requested metric and scope the live adapter holds, exactly the
\* adapter's series.
C8_ArchiveRoundTrip ==
    \A r \in Readers :
        (/\ reader[r].pc = "returned"
         /\ reader[r].drained
         /\ reader[r].job.job_state \in TerminalStates
         /\ reader[r].job.monitoring_status = MonitoringStatusArchivingSuccessful)
        => /\ ~reader[r].result.err
           /\ \A m \in AskedMetrics(r) \cap DOMAIN AdapterData(reader[r].job.id) :
              \A sc \in AskedScopes(r) \cap DOMAIN AdapterData(reader[r].job.id)[m] :
                 /\ m \in DOMAIN reader[r].result.jd
                 /\ sc \in DOMAIN reader[r].result.jd[m]
                 /\ reader[r].result.jd[m][sc] = AdapterData(reader[r].job.id)[m][sc]

\* C10: no two executions of the compute function for one key are in
\* progress at once; a caller that finds its key being computed waits and
\* never computes; when the one execution ends, it and every caller waiting
\* for the key return its value.
C10_SingleFlight ==
    /\ [](\A r \in Readers, q \in Readers :
            /\ (r # q /\ reader[r].pc = "computing" /\ reader[q].pc = "computing")
                  => KeyOf(r) # KeyOf(q)
            /\ reader[q].pc = "waiting"
                  => /\ KeyOf(q) \in DOMAIN cache
                     /\ cache[KeyOf(q)].computing
                     /\ \E c \in Readers :
                           reader[c].pc = "computing" /\ KeyOf(c) = KeyOf(q))
    /\ [][\A r \in Readers, q \in Readers :
            /\ reader[q].pc = "waiting" => reader'[q].pc \in {"waiting", "returned"}
            /\ (/\ reader[r].pc = "computing" /\ reader'[r].pc = "returned"
                /\ reader[q].pc = "waiting" /\ KeyOf(q) = KeyOf(r))
                  => /\ reader'[q].pc = "returned"
                     /\ reader'[q].result = reader'[r].result]_vars

\* Two calls for one key overlap: one computes, the other waits for it.
C10_Witness ==
    \E r \in Readers, q \in Readers :
        /\ r # q
        /\ reader[r].pc = "computing"
        /\ reader[q].pc = "waiting"
        /\ KeyOf(r) = KeyOf(q)

\* The key of the call that caller r makes in this step.
CalledKey(r) == cacheKey(reader'[r].job, reader'[r].metrics, reader'[r].scopes)

\* C11: a call for a key whose entry is present and has not expired returns
\* the entry's value and computes nothing; a call for a key whose entry has
\* expired computes again; a value computed by LoadData is stored to expire
\* 2 minutes later for a running job and 300 minutes later otherwise.
C11_CacheTTL ==
    [][\A r \in Readers :
        /\ (/\ reader[r].pc = "idle" /\ reader'[r].pc # "idle"
            /\ CalledKey(r) \in DOMAIN cache
            /\ ~cache[CalledKey(r)].computing)
              => IF now < cache[CalledKey(r)].expires
                 THEN /\ reader'[r].pc = "returned"
                      /\ reader'[r].result = cache[CalledKey(r)].val
                      /\ cache' = cache
                 ELSE /\ reader'[r].pc = "computing"
                      /\ cache'[CalledKey(r)].computing
        /\ (/\ reader[r].pc = "computing" /\ reader'[r].pc = "returned"
            /\ KeyOf(r) \in DOMAIN cache')
              => /\ cache'[KeyOf(r)].val = reader'[r].result
                 /\ cache'[KeyOf(r)].expires - now =
                       IF reader[r].job.job_state = JobStateRunning
                       THEN 2 ELSE 300]_vars

\* One caller has computed and stored the data of a stopped job, five hours
\* have passed, and a second caller of the same key computes again.
C11_Witness ==
    \E r \in Readers, q \in Readers :
        /\ reader[r].pc = "returned" /\ ~reader[r].hit /\ ~reader[r].result.err
        /\ reader[r].job.job_state \in TerminalStates
        /\ reader[q].pc = "computing"
        /\ KeyOf(q) = KeyOf(r)
        /\ now >= 300

\* C12: a computation of LoadData or of GetUIConfig that ends in an error
\* has ttl 0 and size 0; the error goes to the caller and is not stored: no
\* entry ever holds an error, no caller is served an error from the cache,
\* and a call that finds no entry for its key computes.
C12_ErrorsNotCached ==
    /\ [](/\ \A i \in DOMAIN job, metrics \in MetricArgs, scopes \in ScopeArgs,
                outcome \in AdapterOutcomes :
                LET c == LoadDataCompute(job[i], metrics, scopes, useArchive,
                                         outcome, archive)
                IN  c.val.err => c.ttl = 0 /\ c.size = 0
          /\ \A user \in Users, outcome \in QueryOutcomes :
                LET v == GetUIConfigCompute(uiDefaults,
                                            RowsOf(configuration, user), outcome)
                IN  v.val.err => v.ttl = 0 /\ v.size = 0
          /\ \A k \in DOMAIN cache : ~cache[k].computing => ~cache[k].val.err
          /\ \A u \in DOMAIN uiCache :
                ~uiCache[u].computing => ~uiCache[u].val.err
          /\ \A r \in Readers : reader[r].hit => ~reader[r].result.err
          /\ \A c \in UiCallers : uiCall[c].hit => ~uiCall[c].result.err)
    /\ [][/\ \A r \in Readers :
                /\ (/\ reader[r].pc = "computing" /\ reader'[r].pc = "returned"
                    /\ reader'[r].result.err)
                      => KeyOf(r) \notin DOMAIN cache'
                /\ (/\ reader[r].pc = "idle" /\ reader'[r].pc # "idle"
                    /\ CalledKey(r) \notin DOMAIN cache)
                      => reader'[r].pc = "computing"
          /\ \A c \in UiCallers :
                /\ (/\ uiCall[c].pc = "computing" /\ uiCall'[c].pc = "returned"
                    /\ uiCall'[c].result.err)
                      => uiCall[c].user \notin DOMAIN uiCache'
                /\ (/\ uiCall[c].pc = "idle" /\ uiCall'[c].pc # "idle"
                    /\ uiCall'[c].user \notin DOMAIN uiCache)
                      => uiCall'[c].pc = "computing"]_vars

\* A LoadData call and a GetUIConfig call have each returned an error, and a
\* later call with the same key is computing again.
C12_Witness ==
    /\ \E r \in Readers, q \in Readers :
          /\ reader[r].pc = "returned" /\ reader[r].result.err
          /\ reader[q].pc = "computing" /\ KeyOf(q) = KeyOf(r)
    /\ \E c \in UiCallers, d \in UiCallers :
          /\ uiCall[c].pc = "returned" /\ uiCall[c].result.err
          /\ uiCall[d].pc = "computing" /\ uiCall[d].user = uiCall[c].user

\* C13: LoadData's compute function reads the live adapter exactly when the
\* job is running, or its monitoring status is running-or-archiving, or
\* archiving is disabled, and the archive in every other case; with the live
\* path selected and no adapter registered for the cluster it returns an
\* error and reads nothing.
C13_RoutingRule ==
    probe.op = "LoadData" =>
        LET live == \/ probe.job.job_state = "running"
                    \/ probe.job.monitoring_status = 1
                    \/ ~probe.archiveUsed
        IN  /\ live /\ probe.job.cluster \in metricDataRepos
                => probe.out.from = "live"
            /\ live /\ probe.job.cluster \notin metricDataRepos
                => probe.out.from = "none" /\ probe.out.val.err
            /\ ~live => probe.out.from = "archive"

\* A stopped and archived job was read from the archive.
C13_Witness ==
    /\ probe.op = "LoadData"
    /\ probe.job.job_state \in TerminalStates
    /\ probe.job.monitoring_status = MonitoringStatusArchivingSuccessful
    /\ probe.archiveUsed
    /\ probe.out.from = "archive"
    /\ ~probe.out.val.err

\* What the adapter answered in the call held by probe.
AdapterAnswer ==
    AdapterLoadData(probe.job.id,
                    IF probe.metrics = Nil THEN MetricConfig ELSE probe.metrics,
                    IF probe.scopes = Nil THEN <<"node">> ELSE probe.scopes,
                    probe.outcome)

\* C14: on the live path, an adapter error that comes with data yields that
\* data and no error; an adapter error that comes without data yields the
\* error and no data.
C14_PartialFailure ==
    (probe.op = "LoadData" /\ probe.out.from = "live" /\ AdapterAnswer.err) =>
        IF DOMAIN AdapterAnswer.jd # {}
        THEN /\ ~probe.out.val.err
             /\ probe.out.val.jd = AdapterAnswer.jd
        ELSE /\ probe.out.val.err
             /\ probe.out.val.jd = NoData

\* The adapter failed in part and its data was returned.
C14_Witness ==
    /\ probe.op = "LoadData"
    /\ probe.out.from = "live"
    /\ probe.outcome = "partial"
    /\ ~probe.out.val.err
    /\ DOMAIN probe.out.val.jd # {}

\* C15: a result served from the archive for a requested metric list and/or
\* scope list holds exactly the requested metrics the archive has, for each
\* of them no scope outside the requested ones, and no scope the archive
\* does not hold.
C15_ArchiveTrimming ==
    (/\ probe.op = "LoadData" /\ probe.out.from = "archive"
     /\ ~probe.out.val.err
     /\ (probe.metrics # Nil \/ probe.scopes # Nil)) =>
        LET held == probe.store[probe.job.id]
            got == probe.out.val.jd
        IN  /\ probe.metrics # Nil
                => DOMAIN got = Range(probe.metrics) \cap DOMAIN held
            /\ DOMAIN got \subseteq DOMAIN held
            /\ \A m \in DOMAIN got :
                  /\ DOMAIN got[m] \subseteq DOMAIN held[m]
                  /\ probe.scopes # Nil
                        => DOMAIN got[m] \subseteq Range(probe.scopes)

\* The aggregate column and the statistic Archive writes for a metric name.
C18_Columns ==
    {<<"flops_any", "flops_any_avg", "Avg">>,
     <<"mem_used", "mem_used_max", "Max">>,
     <<"mem_bw", "mem_bw_avg", "Avg">>,
     <<"load", "load_avg", "Avg">>,
     <<"net_bw", "net_bw_avg", "Avg">>,
     <<"file_bw", "file_bw_avg", "Avg">>}

\* C18: Archive(dbId, status, stats) reports no error, sets the job's
\* monitoring status to status, sets each of the six aggregate columns whose
\* metric name is a key of stats to that metric's statistic and leaves the
\* others as they were; names outside the six change nothing; the job's
\* state, duration, start time and identity, and every other job, are
\* unchanged.
C18_ArchiveFrame ==
    probe.op = "Archive" =>
        /\ ~probe.out.err
        /\ DOMAIN probe.out.tbl = DOMAIN probe.tbl
        /\ \A i \in DOMAIN probe.tbl :
            LET old == probe.tbl[i]
                new == probe.out.tbl[i]
            IN  IF old.id # probe.jobId
                THEN new = old
                ELSE /\ new.monitoring_status = probe.monitoringStatus
                     /\ \A c \in C18_Columns :
                          new[c[2]] =
                            IF c[1] \in DOMAIN probe.metricStats
                            THEN probe.metricStats[c[1]][c[3]]
                            ELSE old[c[2]]
                     /\ \A f \in {"id", "job_id", "cluster", "start_time",
                                  "duration", "job_state"} :
                          new[f] = old[f]

\* An archived job was archived again with statistics for mem_used and an
\* unmapped metric but not for load: mem_used_max took the new value and
\* load_avg kept its old non-zero one.
C18_Witness ==
    /\ probe.op = "Archive"
    /\ probe.jobId \in DOMAIN probe.tbl
    /\ {"mem_used", "cpu_load"} \subseteq DOMAIN probe.metricStats
    /\ "load" \notin DOMAIN probe.metricStats
    /\ probe.tbl[probe.jobId].load_avg # 0
    /\ probe.out.tbl[probe.jobId].load_avg = probe.tbl[probe.jobId].load_avg
    /\ probe.out.tbl[probe.jobId].mem_used_max # probe.tbl[probe.jobId].mem_used_max
    /\ probe.out.tbl[probe.jobId].mem_used_max = probe.metricStats["mem_used"].Max

\* C19: Stop called with a surrogate id that matches no job row returns an
\* error and changes no row.
C19_StopUnknownId ==
    (probe.op = "Stop" /\ \A i \in DOMAIN probe.tbl : probe.tbl[i].id # probe.jobId)
        => probe.out.err /\ probe.out.tbl = probe.tbl

\* C17: a successful FindJobOrUser returns a job id or a username, never
\* both; for a caller without the admin role the job returned is one the
\* caller owns and no username is returned; when no job the caller may see
\* has the term as job id and no job has the term as user, the call returns
\* ErrNotFound; and ErrNotFound comes with both results empty.
C17_FindJobOrUser ==
    probe.op = "FindJobOrUser" =>
        LET out == probe.out
            unprivileged == ~probe.user.nil /\ ~probe.user.admin
            jobMatch ==
                \E i \in DOMAIN probe.tbl :
                    /\ Atoi(probe.searchterm).ok
                    /\ probe.tbl[i].job_id = Atoi(probe.searchterm).n
                    /\ (unprivileged => probe.tbl[i].user = probe.user.Username)
            userMatch ==
                \E i \in DOMAIN probe.tbl : probe.tbl[i].user = probe.searchterm
        IN  /\ out.err = "" => (out.job = 0 \/ out.username = "")
            /\ unprivileged =>
                  /\ out.username = ""
                  /\ out.err = "" =>
                        \E i \in DOMAIN probe.tbl :
                            /\ probe.tbl[i].id = out.job
                            /\ probe.tbl[i].user = probe.user.Username
            /\ (~jobMatch /\ ~userMatch) => out.err = ErrNotFound
            /\ out.err = ErrNotFound => (out.job = 0 /\ out.username = "")

\* A user without the admin role searched for a job id that both an own job
\* and another user's job carry, and got the own job.
C17_Witness ==
    /\ probe.op = "FindJobOrUser"
    /\ ~probe.user.nil /\ ~probe.user.admin
    /\ probe.searchterm = "123"
    /\ \E i, k \in DOMAIN probe.tbl :
          /\ probe.tbl[i].job_id = 123 /\ probe.tbl[k].job_id = 123
          /\ probe.tbl[i].user = probe.user.Username
          /\ probe.tbl[k].user # probe.user.Username
          /\ probe.out.job = probe.tbl[i].id
    /\ probe.out.err = ""

\* The call of c ran alone: every other call returned before it arrived or
\* arrived after it returned.
RanAlone(c) ==
    \A e \in TagCallers \ {c} :
        \/ tagCall[e].pc = "idle"
        \/ e \in tagCall[c].after
        \/ c \in tagCall[e].after

\* C16: when AddTagOrCreate is called a second time with the same type and
\* name after a first call has returned (no call overlapping another), both
\* calls return the same tag id, the id of a tag row, and the tag table
\* holds exactly one row with that type and name.
C16_AddTagOrCreateIdempotent ==
    \A c, d \in TagCallers :
        (/\ tagCall[c].pc = "done" /\ tagCall[d].pc = "done"
         /\ c \in tagCall[d].after
         /\ RanAlone(c) /\ RanAlone(d)
         /\ tagCall[c].tagType = tagCall[d].tagType
         /\ tagCall[c].tagName = tagCall[d].tagName) =>
            /\ tagCall[c].tagId = tagCall[d].tagId
            /\ tagCall[c].tagId \in DOMAIN tag
            /\ Cardinality({i \in DOMAIN tag :
                    /\ tag[i].tag_type = tagCall[c].tagType
                    /\ tag[i].tag_name = tagCall[c].tagName}) = 1

\* Two jobs were tagged one after the other with the same type and name:
\* both calls succeeded and both jobs carry the one tag.
C16_Witness ==
    \E c, d \in TagCallers :
        /\ tagCall[c].pc = "done" /\ tagCall[d].pc = "done"
        /\ c \in tagCall[d].after
        /\ tagCall[c].tagName = tagCall[d].tagName
        /\ tagCall[c].jobId # tagCall[d].jobId
        /\ ~tagCall[c].err /\ ~tagCall[d].err
        /\ tagCall[c].tagId = tagCall[d].tagId
        /\ {<<tagCall[c].jobId, tagCall[c].tagId>>,
            <<tagCall[d].jobId, tagCall[d].tagId>>} \subseteq jobtag

\* The positions of an archiving task whose pull from the adapter failed.
C20_Failed == {"failed", "marked", "done_failed"}

\* C20: a stop request that has triggered its archiving is answered 200 and
\* the answer never changes, whatever becomes of the archiving; an archiving
\* task that has failed stays failed for the same job (it is not started
\* again); and a failed task changes the job table in one step only, which
\* sets the job's monitoring status to archiving-failed and leaves every
\* other column of the job, and every other job, as it was.
C20_ArchivingFailureNotPropagated ==
    /\ [](\A r \in StopReqs :
            (stopReq[r].pc = "done" /\ arch[r].pc # "none")
                => stopReq[r].status = 200)
    /\ [][\A r \in StopReqs :
            /\ stopReq[r].pc = "done" => stopReq'[r] = stopReq[r]
            /\ arch[r].pc \in C20_Failed =>
                  /\ arch'[r].pc \in C20_Failed
                  /\ arch'[r].dbid = arch[r].dbid
            /\ (arch[r].pc = "registered" /\ arch'[r].pc = "failed")
                  => job' = job
            /\ (arch[r].pc = "failed" /\ arch'[r].pc # "failed") =>
                  /\ arch'[r].pc = "marked"
                  /\ DOMAIN job' = DOMAIN job
                  /\ \A i \in DOMAIN job :
                        IF job[i].id = arch[r].dbid
                        THEN job'[i] = [job[i] EXCEPT !.monitoring_status =
                                    MonitoringStatusArchivingFailed]
                        ELSE job'[i] = job[i]
            /\ (arch[r].pc = "marked" /\ arch'[r].pc # "marked")
                  => arch'[r].pc = "done_failed" /\ job' = job]_vars

\* A stop was answered 200, its archiving failed afterwards and is over: the
\* job is failed to archive, with the state and the duration the stop set.
C20_Witness ==
    \E r \in StopReqs :
        /\ stopReq[r].pc = "done" /\ stopReq[r].status = StatusOK
        /\ arch[r].pc = "done_failed"
        /\ \E i \in DOMAIN job :
              /\ job[i].id = arch[r].dbid
              /\ job[i].monitoring_status = MonitoringStatusArchivingFailed
              /\ job[i].job_state = stopReq[r].state
              /\ job[i].duration = stopReq[r].stop_time - job[i].start_time

\* The value the claim names for metric m: the sum of the averages the
\* adapter reported per host, or NaN without an entry for m.
C21_Expected(m) ==
    LET stats == AdapterLoadStats(probe.outcome).stats
    IN  IF m \in DOMAIN stats THEN Float(SumAvg(stats[m])) ELSE NaN

C21_Appended ==
    /\ DOMAIN probe.out.data = DOMAIN probe.data
    /\ \A i \in DOMAIN probe.metrics :
          probe.out.data[i] =
              Append(probe.data[i], C21_Expected(probe.metrics[i]))

\* C21 as stated: LoadAverages for a running job on a cluster with a
\* registered adapter never fails, and appends to each column i exactly one
\* value, the sum of the per-host averages of metric i or NaN.
C21_LoadAveragesNeverFails ==
    (/\ probe.op = "LoadAverages"
     /\ probe.job.job_state = "running"
     /\ probe.job.cluster \in metricDataRepos) =>
        ~probe.out.err /\ C21_Appended

\* C21 as amended: LoadAverages for a running job fails exactly when no
\* adapter is registered for the cluster or the adapter's LoadStats returns
\* an error, and then leaves the columns as they were; otherwise it appends
\* to each column i exactly one value, the sum of the per-host averages of
\* metric i or NaN when the adapter has no entry for it.
C21_LoadAverages ==
    (probe.op = "LoadAverages" /\ probe.job.job_state = "running") =>
        /\ probe.out.err <=> \/ probe.job.cluster \notin metricDataRepos
                             \/ AdapterLoadStats(probe.outcome).err
        /\ probe.out.err => probe.out.data = probe.data
        /\ ~probe.out.err => C21_Appended

\* A running job's averages were loaded for mem_used and flops_any into
\* columns that held a value: mem_used got the sum 5 appended, flops_any,
\* which the adapter does not have, NaN.
C21_Witness ==
    /\ probe.op = "LoadAverages"
    /\ probe.job.job_state = "running"
    /\ probe.metrics = <<"mem_used", "flops_any">>
    /\ ~probe.out.err
    /\ probe.data = <<(<<Float(9)>>), (<<Float(9)>>)>>
    /\ probe.out.data = <<(<<Float(9), Float(5)>>), (<<Float(9), NaN>>)>>

C29_SameBackend ==
    (probe.op = "LoadAverages" /\ probe.out.from = "archive") =>
        LoadDataCompute(probe.job, Nil, Nil, probe.archiveUsed, "ok",
                        probe.store).from = "archive"

\* C23: InitDB returns success whatever directories fail to load; every
\* directory whose loadJob returned no error has its job row in the table;
\* the reported count is the number of job rows in the table; and job
\* directories of both layouts are imported.
C23_ImportTolerant ==
    probe.op = "InitDB" =>
        LET out == probe.out
            calls == DOMAIN out.jobDirs
        IN  /\ ~out.err
            /\ \A k \in calls \ out.failed :
                  \E r \in DOMAIN out.job : out.jobFrom[r] = k
            /\ out.count = Len(out.job)
            /\ Cardinality(calls) = Len(probe.archive)

\* C28: after InitDB no job row, no tag row and no jobtag row comes from a
\* directory whose loadJob failed, and every id in the tag cache is the id
\* of a tag row.
C28_ImportAtomic ==
    probe.op = "InitDB" =>
        LET out == probe.out
        IN  /\ \A k \in out.failed :
                  /\ \A r \in DOMAIN out.job : out.jobFrom[r] # k
                  /\ \A t \in DOMAIN out.tag : out.tagFrom[t] # k
                  /\ \A p \in out.jobtag :
                        p[1] \in DOMAIN out.job => out.jobFrom[p[1]] # k
            /\ \A key \in DOMAIN out.tags :
                  \E t \in DOMAIN out.tag : out.tag[t].id = out.tags[key]

\* C24: with archiving enabled, every LoadData call made with a job row
\* whose state is terminal and whose monitoring status is archiving-succeeded
\* or archiving-failed returns what a read of the archive gave, never data
\* read from the live adapter.
C24_ReadsAfterArchiving ==
    \A r \in Readers :
        (/\ reader[r].pc = "returned"
         /\ useArchive
         /\ reader[r].job.job_state \in TerminalStates
         /\ reader[r].job.monitoring_status \in
                {MonitoringStatusArchivingSuccessful,
                 MonitoringStatusArchivingFailed})
        => reader[r].result.from = "archive"
\* C25: every read and every write of uiDefaults happens while the RWMutex
\* is held in the matching mode: a caller of GetUIConfig that is reading the
\* map, on the anonymous path or inside the authenticated path's compute
\* function, holds the read lock, and so no read has overlapped a write of
\* an anonymous UpdateConfig.
C25_LockDiscipline ==
    /\ \A c \in UiCallers : uiCall[c].reading => c \in lock.readers
    /\ \A c \in UiCallers : ~uiCall[c].raced
    /\ \A u \in Updaters : updCall[u].pc = "writing" => lock.writer = u

\* The update of u is the only call of UpdateConfig for its user and key
\* that has arrived.
OnlyUpdate(u) ==
    \A q \in Updaters \ {u} :
        \/ updCall[q].pc = "idle"
        \/ updCall[q].user # updCall[u].user
        \/ updCall[q].key # updCall[u].key

\* C26: once UpdateConfig(key, value) of an authenticated user has returned
\* without error, every call of GetUIConfig for that user that started
\* afterwards and returns a config returns one with the key set to the new
\* value.
C26_ReadYourWrites ==
    \A c \in UiCallers, u \in Updaters :
        (/\ uiCall[c].pc = "returned"
         /\ ~uiCall[c].result.err
         /\ u \in uiCall[c].after
         /\ updCall[u].user # ""
         /\ updCall[u].user = uiCall[c].user
         /\ OnlyUpdate(u))
        => /\ updCall[u].key \in DOMAIN uiCall[c].result.cfg
           /\ uiCall[c].result.cfg[updCall[u].key]
                  = Unmarshal(updCall[u].value).val

\* The rows of the tag table with the type and name of call c.
RowsFor(c) ==
    {i \in DOMAIN tag : /\ tag[i].tag_type = tagCall[c].tagType
                        /\ tag[i].tag_name = tagCall[c].tagName}

\* In every interleaving the tag table holds no two rows with the same type
\* and name, and a call that has returned without error has returned the id
\* of the one row with its type and name and its job carries that tag.
C27_RowsAndSuccess ==
    /\ \A i, k \in DOMAIN tag :
          (tag[i].tag_type = tag[k].tag_type
           /\ tag[i].tag_name = tag[k].tag_name) => i = k
    /\ \A c \in TagCallers :
          (tagCall[c].pc = "done" /\ ~tagCall[c].err) =>
             /\ RowsFor(c) = {tagCall[c].tagId}
             /\ tag[tagCall[c].tagId].id = tagCall[c].tagId
             /\ <<tagCall[c].jobId, tagCall[c].tagId>> \in jobtag

\* C27 as stated: under every interleaving of AddTagOrCreate calls the tag
\* table never holds two rows with the same type and name, every call that
\* returns without error returns the id of the single row and leaves the
\* association of its job and the tag in place, and after a call that
\* returned an error its job has no association with the tag.
C27_ErrorLeavesNoAssociation ==
    /\ C27_RowsAndSuccess
    /\ \A c \in TagCallers :
          (tagCall[c].pc = "done" /\ tagCall[c].err) =>
             \A i \in RowsFor(c) : <<tagCall[c].jobId, tag[i].id>> \notin jobtag

\* C27, amended: the same for the tag rows and the calls without error; a
\* call that returns an error has added no association itself.  Either it
\* returns id 0, CreateTag having failed on the row another call inserted,
\* or it returns the tag's id, AddTag having failed because its job carried
\* the tag already; the step in which it returns leaves jobtag as it was.
C27_AddTagOrCreateInterleaved ==
    /\ [](C27_RowsAndSuccess)
    /\ [](\A c \in TagCallers :
            (tagCall[c].pc = "done" /\ tagCall[c].err) =>
               /\ Cardinality(RowsFor(c)) = 1
               /\ \/ tagCall[c].tagId = 0
                  \/ /\ RowsFor(c) = {tagCall[c].tagId}
                     /\ <<tagCall[c].jobId, tagCall[c].tagId>> \in jobtag)
    /\ [][\A c \in TagCallers :
            (tagCall[c].pc # "done" /\ tagCall'[c].pc = "done"
             /\ tagCall'[c].err) => jobtag' = jobtag]_vars

\* Two overlapping calls for different jobs with the same type and name, the
\* tag not existing: one created the row and tagged its job, the other came
\* back from CreateTag with the error and its job carries no tag.
C27_Witness ==
    \E c, d \in TagCallers :
        /\ tagCall[c].pc = "done" /\ tagCall[d].pc = "done"
        /\ c \notin tagCall[d].after /\ d \notin tagCall[c].after
        /\ tagCall[c].tagType = tagCall[d].tagType
        /\ tagCall[c].tagName = tagCall[d].tagName
        /\ tagCall[c].jobId # tagCall[d].jobId
        /\ ~tagCall[c].err /\ tagCall[d].err /\ tagCall[d].tagId = 0
        /\ Cardinality(RowsFor(c)) = 1
        /\ <<tagCall[c].jobId, tagCall[c].tagId>> \in jobtag
        /\ \A i \in DOMAIN tag : <<tagCall[d].jobId, tag[i].id>> \notin jobtag

\* The six aggregate statistic columns of a job row.
AggregateColumns(j) ==
    <<j.flops_any_avg, j.mem_used_max, j.mem_bw_avg, j.load_avg,
      j.net_bw_avg, j.file_bw_avg>>

\* Every row is running with duration 0, or in a terminal state with the
\* state and the duration a stop request for the job has written; and the
\* aggregate columns of a job for which Archive has not been called are 0.
C30_Rows ==
    \A i \in DOMAIN job :
        /\ \/ job[i].job_state = JobStateRunning /\ job[i].duration = 0
           \/ /\ job[i].job_state \in TerminalStates
              /\ \E r \in StopReqs :
                    /\ stopReq[r].pc \in {"updated", "triggered", "done"}
                    /\ stopReq[r].job.id = job[i].id
                    /\ job[i].job_state = stopReq[r].state
                    /\ job[i].duration =
                          stopReq[r].stop_time - stopReq[r].job.start_time
        /\ (\A r \in StopReqs :
               ~(arch[r].dbid = job[i].id
                 /\ arch[r].pc \in {"archived", "done"}))
           => AggregateColumns(job[i]) = <<0, 0, 0, 0, 0, 0>>

\* The step is a call of Start: one running row is added, its aggregate
\* columns 0 whatever statistics the request carries.
C30_StartStep ==
    /\ Len(job') = Len(job) + 1
    /\ \A i \in DOMAIN job : job'[i] = job[i]
    /\ job'[Len(job')].job_state = JobStateRunning
    /\ job'[Len(job')].duration = 0
    /\ AggregateColumns(job'[Len(job')]) = <<0, 0, 0, 0, 0, 0>>

\* The step is a call of Stop by a stop request.
C30_StopStep ==
    \E r \in StopReqs :
        /\ stopReq[r].pc = "found" /\ stopReq'[r].pc = "updated"
        /\ job' = Stop(job, stopReq[r].job.id,
                       stopReq[r].stop_time - stopReq[r].job.start_time,
                       stopReq[r].state, stopReq[r].job.monitoring_status)

\* The step is a call of Archive by an archiving task.
C30_ArchiveStep ==
    \E r \in StopReqs :
        /\ arch[r].pc = "written" /\ arch'[r].pc = "archived"
        /\ \E ms \in {MonitoringStatusArchivingSuccessful,
                      MonitoringStatusArchivingFailed} :
              job' = Archive(job, arch[r].dbid, ms,
                             Statistics(archive[arch[r].dbid]))

\* The step is a call of UpdateMonitoringStatus by an archiving task.
C30_MonitoringStep ==
    \E r \in StopReqs :
        /\ arch[r].pc = "failed" /\ arch'[r].pc = "marked"
        /\ job' = UpdateMonitoringStatus(job, arch[r].dbid,
                                         MonitoringStatusArchivingFailed)

====
